---- MODULE Spec2Model ----
(***************************************************************************)
(* A model of refa's interval-set algebra (src/src/char-set.ts) and of the *)
(* FA -> regular expression conversion (src/src/to-regex.ts).              *)
(*                                                                         *)
(* A CharRange is a record [min, max]; a CharSet is a record               *)
(* [maximum, ranges] whose ranges are a sequence of CharRanges.  Arrays    *)
(* are sequences (index 1 is the code's index 0).                          *)
(***************************************************************************)
EXTENDS Integers, Sequences, FiniteSets, TLC

\* ------------------------------------------------------------------ bounds
\* greatest `maximum` of the CharSets given to the CharSet operations
CsMax == 4
\* greatest `maximum` of the receivers that are given foreign ranges
FMax == 2
\* most ranges in a foreign iterable of ranges
MaxForeign == 2
\* the states of the input FA are 1..NumStates; its initial state is 1
NumStates == 3
\* most edges of the input FA
MaxEdges == 3
\* the `maximum` of the CharSets that label the edges of the input FA
FaMax == 1
\* longest word whose membership is compared
MaxWordLen == 4
\* largest maximumNodes of the conversions with a small budget
MaxNodes == 12
\* largest finite maximumOptimizationPasses
MaxPasses == 2
\* most nodes of the NodeList whose methods are called one by one
NlNodes == 3
\* most calls made on that NodeList
MaxCalls == 5
\* most edges a dense input FA lacks of its NumStates * NumStates edges
MaxMissing == 2

VARIABLES csThis, csOther, csExtra, csOp, csRes,
          nfa, options, phase, engine, pending, expression, passes, error,
          nlist, nlCall, toProcessNext

csVars == <<csThis, csOther, csExtra, csOp, csRes>>
faVars == <<nfa, options, phase, engine, pending, expression, passes, error, toProcessNext>>
nlVars == <<nlist, nlCall>>
vars == <<csThis, csOther, csExtra, csOp, csRes,
          nfa, options, phase, engine, pending, expression, passes, error,
          nlist, nlCall, toProcessNext>>

\* ------------------------------------------------------------ generic helpers
Range(s) == {s[i] : i \in 1..Len(s)}

Min2(x, y) == IF x <= y THEN x ELSE y
Max2(x, y) == IF x >= y THEN x ELSE y

\* ============================================================== char-set.ts
mkRange(lo, hi) == [min |-> lo, max |-> hi]
\* private constructor(maximum, ranges)
CharSet(maximum, ranges) == [maximum |-> maximum, ranges |-> ranges]

\* the outcome of a call: err = "none" and the returned value, or the error
Ok(v) == [err |-> "none", val |-> v]
Fail(e) == [err |-> e, val |-> 0]

\* the members of a list of ranges (the reference semantics)
Chars(ranges) == UNION {r.min .. r.max : r \in Range(ranges)}

\* The documented invariant of CharSet.ranges (char-set.ts:29-34)
IsNormalForm(ranges, maximum) ==
    /\ \A i \in 1..Len(ranges) :
          /\ 0 <= ranges[i].min
          /\ ranges[i].min <= ranges[i].max
          /\ ranges[i].max <= maximum
    /\ \A i \in 1..(Len(ranges) - 1) : ranges[i].max + 1 < ranges[i + 1].min

isEmpty(set) == Len(set.ranges) = 0

CharSet_empty(maximum) == CharSet(maximum, <<>>)
CharSet_all(maximum) == CharSet(maximum, <<mkRange(0, maximum)>>)

\* checkCompatibility: TRUE when it returns, FALSE when it throws RangeError
checkCompatibility(this, value) == value.maximum = this.maximum

\* (a check without `range.max > this.maximum`)
checkRange_noUpper(this, range) ==
    ~(range.min < 0 \/ range.min > range.max)
\* checkRange: TRUE when it returns the range, FALSE when it throws RangeError
checkRange(this, range) ==
    ~(range.min < 0 \/ range.min > range.max \/ range.max > this.maximum)

CharSet_equals(this, other) ==
    /\ this.maximum = other.maximum
    /\ Len(this.ranges) = Len(other.ranges)
    /\ \A i \in 1..Len(this.ranges) :
          /\ this.ranges[i].min = other.ranges[i].min
          /\ this.ranges[i].max = other.ranges[i].max

\* ---- optimizeSortedRanges: the loop over i (0-based), ranges mutated in place
RECURSIVE optimizeSortedLoop(_, _, _)
optimizeSortedLoop(ranges, i, deleteCount) ==
    IF i >= Len(ranges) - 1
    THEN SubSeq(ranges, 1, Len(ranges) - deleteCount)
    ELSE LET current == ranges[i - deleteCount + 1]
             next == ranges[i + 2]
         IN IF current.max >= next.max
            THEN optimizeSortedLoop(ranges, i + 1, deleteCount + 1)
            ELSE IF next.min <= current.max + 1
            THEN optimizeSortedLoop(
                     [ranges EXCEPT ![i - deleteCount + 1] = mkRange(current.min, next.max)],
                     i + 1, deleteCount + 1)
            ELSE optimizeSortedLoop(
                     [ranges EXCEPT ![i - deleteCount + 2] = next], i + 1, deleteCount)

\* mutant: adjacent ranges are not fused (`next.min <= current.max`)
RECURSIVE optimizeSortedLoop_overlapOnly(_, _, _)
optimizeSortedLoop_overlapOnly(ranges, i, deleteCount) ==
    IF i >= Len(ranges) - 1
    THEN SubSeq(ranges, 1, Len(ranges) - deleteCount)
    ELSE LET current == ranges[i - deleteCount + 1]
             next == ranges[i + 2]
         IN IF current.max >= next.max
            THEN optimizeSortedLoop_overlapOnly(ranges, i + 1, deleteCount + 1)
            ELSE IF next.min <= current.max
            THEN optimizeSortedLoop_overlapOnly(
                     [ranges EXCEPT ![i - deleteCount + 1] = mkRange(current.min, next.max)],
                     i + 1, deleteCount + 1)
            ELSE optimizeSortedLoop_overlapOnly(
                     [ranges EXCEPT ![i - deleteCount + 2] = next], i + 1, deleteCount)
optimizeSortedRanges_overlapOnly(ranges) == optimizeSortedLoop_overlapOnly(ranges, 0, 0)

optimizeSortedRanges(ranges) == optimizeSortedLoop(ranges, 0, 0)

\* ---- ranges.sort((a, b) => a.min - b.min): a stable sort by min
RECURSIVE insertByMin(_, _)
insertByMin(sorted, r) ==
    IF sorted = <<>> THEN <<r>>
    ELSE IF sorted[Len(sorted)].min <= r.min THEN Append(sorted, r)
    ELSE Append(insertByMin(SubSeq(sorted, 1, Len(sorted) - 1), r), sorted[Len(sorted)])

RECURSIVE sortByMin(_)
sortByMin(ranges) ==
    IF ranges = <<>> THEN <<>>
    ELSE insertByMin(sortByMin(SubSeq(ranges, 1, Len(ranges) - 1)), ranges[Len(ranges)])

optimizeRanges(ranges) == optimizeSortedRanges(sortByMin(ranges))

\* mutant: the trailing gap after the last range is forgotten
negateRanges_noTrail(ranges, maximum) ==
    IF Len(ranges) = 0
    THEN <<mkRange(0, maximum)>>
    ELSE LET first == ranges[1]
             lead == IF first.min > 0 THEN <<mkRange(0, first.min - 1)>> ELSE <<>>
             gaps == [i \in 1..(Len(ranges) - 1) |->
                         mkRange(ranges[i].max + 1, ranges[i + 1].min - 1)]
         IN lead \o gaps

\* ---- negateRanges
negateRanges(ranges, maximum) ==
    IF Len(ranges) = 0
    THEN <<mkRange(0, maximum)>>
    ELSE LET first == ranges[1]
             last == ranges[Len(ranges)]
             lead == IF first.min > 0 THEN <<mkRange(0, first.min - 1)>> ELSE <<>>
             gaps == [i \in 1..(Len(ranges) - 1) |->
                         mkRange(ranges[i].max + 1, ranges[i + 1].min - 1)]
             trail == IF last.max < maximum THEN <<mkRange(last.max + 1, maximum)>> ELSE <<>>
         IN lead \o gaps \o trail

\* ---- unionRanges: merge of two sorted lists, then optimizeSortedRanges
RECURSIVE mergeRanges(_, _, _, _, _)
mergeRanges(a, b, aIndex, bIndex, newRanges) ==
    IF aIndex <= Len(a) /\ bIndex <= Len(b)
    THEN IF a[aIndex].min <= b[bIndex].min
         THEN mergeRanges(a, b, aIndex + 1, bIndex, Append(newRanges, a[aIndex]))
         ELSE mergeRanges(a, b, aIndex, bIndex + 1, Append(newRanges, b[bIndex]))
    ELSE newRanges \o SubSeq(a, aIndex, Len(a)) \o SubSeq(b, bIndex, Len(b))

unionRanges(a, b) == optimizeSortedRanges(mergeRanges(a, b, 1, 1, <<>>))

\* ---- intersectRanges
RECURSIVE intersectLoop(_, _, _, _, _)
intersectLoop(a, b, aIndex, bIndex, newRanges) ==
    IF aIndex <= Len(a) /\ bIndex <= Len(b)
    THEN LET aRange == a[aIndex]
             bRange == b[bIndex]
         IN IF aRange.max < bRange.min
            THEN intersectLoop(a, b, aIndex + 1, bIndex, newRanges)
            ELSE IF bRange.max < aRange.min
            THEN intersectLoop(a, b, aIndex, bIndex + 1, newRanges)
            ELSE LET pushed == Append(newRanges,
                                   mkRange(Max2(aRange.min, bRange.min),
                                           Min2(aRange.max, bRange.max)))
                 IN IF aRange.max < bRange.max
                    THEN intersectLoop(a, b, aIndex + 1, bIndex, pushed)
                    ELSE IF bRange.max < aRange.max
                    THEN intersectLoop(a, b, aIndex, bIndex + 1, pushed)
                    ELSE intersectLoop(a, b, aIndex + 1, bIndex + 1, pushed)
    ELSE newRanges

intersectRanges(a, b) == intersectLoop(a, b, 1, 1, <<>>)

\* ---- withoutRanges: aRange is the current head of a, which may be the right
\* fragment of a split range; a placeholder stands for `undefined`
RECURSIVE withoutLoop(_, _, _, _, _, _)
withoutLoop(a, b, aIndex, bIndex, aRange, newRanges) ==
    LET nextA(i) == IF i <= Len(a) THEN a[i] ELSE mkRange(0, 0)
    IN IF aIndex <= Len(a) /\ bIndex <= Len(b)
       THEN LET bRange == b[bIndex]
            IN IF aRange.max < bRange.min
               THEN withoutLoop(a, b, aIndex + 1, bIndex, nextA(aIndex + 1),
                                Append(newRanges, aRange))
               ELSE IF bRange.max < aRange.min
               THEN withoutLoop(a, b, aIndex, bIndex + 1, aRange, newRanges)
               ELSE IF aRange.min < bRange.min
               THEN LET pushed == Append(newRanges, mkRange(aRange.min, bRange.min - 1))
                    IN IF bRange.max < aRange.max
                       THEN withoutLoop(a, b, aIndex, bIndex + 1,
                                        mkRange(bRange.max + 1, aRange.max), pushed)
                       ELSE withoutLoop(a, b, aIndex + 1, bIndex, nextA(aIndex + 1), pushed)
               ELSE IF aRange.max > bRange.max
                    THEN withoutLoop(a, b, aIndex, bIndex + 1,
                                     mkRange(bRange.max + 1, aRange.max), newRanges)
                    ELSE withoutLoop(a, b, aIndex + 1, bIndex, nextA(aIndex + 1), newRanges)
       ELSE IF aIndex <= Len(a)
            THEN newRanges \o <<aRange>> \o SubSeq(a, aIndex + 1, Len(a))
            ELSE newRanges

\* mutant: the right fragment of a split range is dropped (a advances)
RECURSIVE withoutLoop_dropFragment(_, _, _, _, _, _)
withoutLoop_dropFragment(a, b, aIndex, bIndex, aRange, newRanges) ==
    LET nextA(i) == IF i <= Len(a) THEN a[i] ELSE mkRange(0, 0)
    IN IF aIndex <= Len(a) /\ bIndex <= Len(b)
       THEN LET bRange == b[bIndex]
            IN IF aRange.max < bRange.min
               THEN withoutLoop_dropFragment(a, b, aIndex + 1, bIndex, nextA(aIndex + 1),
                                Append(newRanges, aRange))
               ELSE IF bRange.max < aRange.min
               THEN withoutLoop_dropFragment(a, b, aIndex, bIndex + 1, aRange, newRanges)
               ELSE IF aRange.min < bRange.min
               THEN withoutLoop_dropFragment(a, b, aIndex + 1, bIndex, nextA(aIndex + 1),
                        Append(newRanges, mkRange(aRange.min, bRange.min - 1)))
               ELSE IF aRange.max > bRange.max
                    THEN withoutLoop_dropFragment(a, b, aIndex, bIndex + 1,
                                     mkRange(bRange.max + 1, aRange.max), newRanges)
                    ELSE withoutLoop_dropFragment(a, b, aIndex + 1, bIndex,
                                     nextA(aIndex + 1), newRanges)
       ELSE IF aIndex <= Len(a)
            THEN newRanges \o <<aRange>> \o SubSeq(a, aIndex + 1, Len(a))
            ELSE newRanges
withoutRanges_dropFragment(a, b) ==
    withoutLoop_dropFragment(a, b, 1, 1, IF Len(a) > 0 THEN a[1] ELSE mkRange(0, 0), <<>>)

withoutRanges(a, b) ==
    withoutLoop(a, b, 1, 1, IF Len(a) > 0 THEN a[1] ELSE mkRange(0, 0), <<>>)

\* ---- arguments of the CharSet methods: a CharSet, a foreign iterable of
\* ranges, or a single CharRange (`instanceof CharSet` is the kind test)
argSet(set) ==
    [kind |-> "CharSet", maximum |-> set.maximum, ranges |-> set.ranges, min |-> 0, max |-> 0]
argIter(ranges) ==
    [kind |-> "Iterable", maximum |-> 0, ranges |-> ranges, min |-> 0, max |-> 0]
argRange(range) ==
    [kind |-> "CharRange", maximum |-> 0, ranges |-> <<>>, min |-> range.min, max |-> range.max]

\* ---- union(...data): the loop `for rangesOrSet of data / for range of toRanges`
\* the first throw ends the call
RECURSIVE checkRanges(_, _, _)
checkRanges(this, ranges, k) ==
    IF k > Len(ranges) THEN TRUE
    ELSE IF ~checkRange(this, ranges[k]) THEN FALSE
    ELSE checkRanges(this, ranges, k + 1)

RECURSIVE unionCollect(_, _, _, _)
unionCollect(this, data, k, newRanges) ==
    IF k > Len(data) THEN Ok(newRanges)
    ELSE IF data[k].kind = "CharSet" /\ ~checkCompatibility(this, data[k])
    THEN Fail("DomainMismatch")
    ELSE IF ~checkRanges(this, data[k].ranges, 1)
    THEN Fail("RangeOutOfBounds")
    ELSE unionCollect(this, data, k + 1, newRanges \o data[k].ranges)

CharSet_negate(this) == CharSet(this.maximum, negateRanges(this.ranges, this.maximum))

CharSet_union(this, data) ==
    IF Len(data) = 1 /\ data[1].kind = "CharSet"
    THEN IF ~checkCompatibility(this, data[1]) THEN Fail("DomainMismatch")
         ELSE IF Len(data[1].ranges) = 0 THEN Ok(this)
         ELSE Ok(CharSet(this.maximum, unionRanges(this.ranges, data[1].ranges)))
    ELSE LET collected == unionCollect(this, data, 1, this.ranges)
         IN IF collected.err # "none" THEN Fail(collected.err)
            ELSE Ok(CharSet(this.maximum, optimizeRanges(collected.val)))

\* `other` of intersect and without: data itself, or empty(maximum).union(data)
toOther(this, data) ==
    IF data.kind = "CharSet"
    THEN IF ~checkCompatibility(this, data) THEN Fail("DomainMismatch")
         ELSE Ok(CharSet(data.maximum, data.ranges))
    ELSE CharSet_union(CharSet_empty(this.maximum), <<data>>)

CharSet_intersect(this, data) ==
    LET other == toOther(this, data)
    IN IF other.err # "none" THEN Fail(other.err)
       ELSE LET newRanges == intersectRanges(this.ranges, other.val.ranges)
            IN IF Len(newRanges) = 0 THEN Ok(CharSet_empty(this.maximum))
               ELSE Ok(CharSet(this.maximum, newRanges))

CharSet_without(this, data) ==
    LET other == toOther(this, data)
    IN IF other.err # "none" THEN Fail(other.err)
       ELSE LET newRanges == withoutRanges(this.ranges, other.val.ranges)
            IN IF Len(newRanges) = 0 THEN Ok(CharSet_empty(this.maximum))
               ELSE Ok(CharSet(this.maximum, newRanges))

\* ---- hasEveryOfRange: binary search, low inclusive and high exclusive (0-based)
RECURSIVE hasEveryLoop(_, _, _, _, _)
hasEveryLoop(ranges, min, max, low, high) ==
    IF low < high
    THEN LET m == low + ((high - low) \div 2)
             mRange == ranges[m + 1]
         IN IF mRange.min = min THEN max <= mRange.max
            ELSE IF mRange.min < min
            THEN IF max <= mRange.max THEN TRUE
                 ELSE hasEveryLoop(ranges, min, max, m + 1, high)
            ELSE hasEveryLoop(ranges, min, max, low, m)
    ELSE FALSE

\* (a search that takes the outer bounds for enough whatever the length)
hasEveryOfRange_boundsOnly(ranges, range) ==
    LET l == Len(ranges)
    IN IF l = 0 THEN FALSE
       ELSE IF range.min < ranges[1].min \/ range.max > ranges[l].max THEN FALSE
       ELSE TRUE
hasEveryOfRange(ranges, range) ==
    LET l == Len(ranges)
    IN IF l = 0 THEN FALSE
       ELSE IF range.min < ranges[1].min \/ range.max > ranges[l].max THEN FALSE
       ELSE IF l = 1 THEN TRUE
       ELSE hasEveryLoop(ranges, range.min, range.max, 0, l)

CharSet_has(this, character) == hasEveryOfRange(this.ranges, mkRange(character, character))

\* ---- isSupersetOf: the two-pointer loop over (i, j), 1-based here
RECURSIVE supersetLoop(_, _, _, _)
supersetLoop(thisRanges, otherRanges, i, j) ==
    IF i <= Len(thisRanges) /\ j <= Len(otherRanges)
    THEN LET thisItem == thisRanges[i]
             otherItem == otherRanges[j]
         IN IF thisItem.min <= otherItem.min /\ thisItem.max >= otherItem.max
            THEN supersetLoop(thisRanges, otherRanges, i, j + 1)
            ELSE IF thisItem.max < otherItem.min
            THEN supersetLoop(thisRanges, otherRanges, i + 1, j)
            ELSE FALSE
    ELSE ~(j <= Len(otherRanges))

\* (a sweep that compares only the lower ends of the two ranges)
RECURSIVE supersetLoop_minOnly(_, _, _, _)
supersetLoop_minOnly(thisRanges, otherRanges, i, j) ==
    IF i <= Len(thisRanges) /\ j <= Len(otherRanges)
    THEN LET thisItem == thisRanges[i]
             otherItem == otherRanges[j]
         IN IF thisItem.min <= otherItem.min /\ thisItem.max >= otherItem.min
            THEN supersetLoop_minOnly(thisRanges, otherRanges, i, j + 1)
            ELSE IF thisItem.max < otherItem.min
            THEN supersetLoop_minOnly(thisRanges, otherRanges, i + 1, j)
            ELSE FALSE
    ELSE ~(j <= Len(otherRanges))
CharSet_isSupersetOf_minOnly(this, other) ==
    IF other.kind # "CharSet"
    THEN Ok(hasEveryOfRange(this.ranges, mkRange(other.min, other.max)))
    ELSE Ok(supersetLoop_minOnly(this.ranges, other.ranges, 1, 1))

CharSet_isSupersetOf(this, other) ==
    IF other.kind # "CharSet"
    THEN Ok(hasEveryOfRange(this.ranges, mkRange(other.min, other.max)))
    ELSE Ok(supersetLoop(this.ranges, other.ranges, 1, 1))

CharSet_isSubsetOf(this, other) ==
    IF other.kind = "CharSet"
    THEN CharSet_isSupersetOf(CharSet(other.maximum, other.ranges), argSet(this))
    ELSE IF isEmpty(this) THEN Ok(TRUE)
    ELSE Ok(other.min <= this.ranges[1].min /\ this.ranges[Len(this.ranges)].max <= other.max)

\* `undefined` as the result of commonCharacter
undefinedChar == 0 - 1

\* ---- commonCharacterOfRange: binary search
RECURSIVE commonCharLoop(_, _, _, _, _)
commonCharLoop(ranges, min, max, low, high) ==
    IF low < high
    THEN LET m == low + ((high - low) \div 2)
             mRange == ranges[m + 1]
         IN IF mRange.min = min THEN min
            ELSE IF mRange.min < min
            THEN IF min <= mRange.max THEN min
                 ELSE commonCharLoop(ranges, min, max, m + 1, high)
            ELSE IF mRange.min <= max THEN mRange.min
                 ELSE commonCharLoop(ranges, min, max, low, m)
    ELSE undefinedChar

commonCharacterOfRange(ranges, range) ==
    LET l == Len(ranges)
    IN IF l = 0 THEN undefinedChar
       ELSE IF range.max < ranges[1].min \/ range.min > ranges[l].max THEN undefinedChar
       ELSE commonCharLoop(ranges, range.min, range.max, 0, l)

\* ---- commonCharacter: the two-pointer loop for a CharSet argument
RECURSIVE commonLoop(_, _, _, _)
commonLoop(thisRanges, otherRanges, i, j) ==
    IF i <= Len(thisRanges) /\ j <= Len(otherRanges)
    THEN LET thisItem == thisRanges[i]
             otherItem == otherRanges[j]
         IN IF otherItem.max < thisItem.min
            THEN commonLoop(thisRanges, otherRanges, i, j + 1)
            ELSE IF thisItem.max < otherItem.min
            THEN commonLoop(thisRanges, otherRanges, i + 1, j)
            ELSE Max2(thisItem.min, otherItem.min)
    ELSE undefinedChar

\* (a sweep that answers with the lower of the two lower ends)
RECURSIVE commonLoop_min(_, _, _, _)
commonLoop_min(thisRanges, otherRanges, i, j) ==
    IF i <= Len(thisRanges) /\ j <= Len(otherRanges)
    THEN LET thisItem == thisRanges[i]
             otherItem == otherRanges[j]
         IN IF otherItem.max < thisItem.min
            THEN commonLoop_min(thisRanges, otherRanges, i, j + 1)
            ELSE IF thisItem.max < otherItem.min
            THEN commonLoop_min(thisRanges, otherRanges, i + 1, j)
            ELSE Min2(thisItem.min, otherItem.min)
    ELSE undefinedChar
CharSet_commonCharacter_min(this, other) ==
    IF other.kind # "CharSet"
    THEN Ok(commonCharacterOfRange(this.ranges, mkRange(other.min, other.max)))
    ELSE Ok(commonLoop_min(this.ranges, other.ranges, 1, 1))

CharSet_commonCharacter(this, other) ==
    IF other.kind # "CharSet"
    THEN Ok(commonCharacterOfRange(this.ranges, mkRange(other.min, other.max)))
    ELSE Ok(commonLoop(this.ranges, other.ranges, 1, 1))

CharSet_isDisjointWith(this, other) ==
    Ok(CharSet_commonCharacter(this, other).val = undefinedChar)

\* ---- Local constants.
\* A local constant of the source (const x = e; ...) is a binding
\* Let([x \in {e} |-> body]): the body evaluated with x bound to the value e.
Let(binding) == binding[CHOOSE x \in DOMAIN binding : TRUE]

\* ============================================================== to-regex.ts
\* ---- AST nodes.  One record shape serves every variant: `kids` is the
\* `elements` of a Concatenation and the `alternatives` of an Alternation,
\* Quantifier or Expression; `id` is the identity of the object (the rank of
\* its allocation), which no function of the code reads.
Infinity == 0 - 1
noCharacters == CharSet(0, <<>>)
Node(type, id, characters, kids, min, max) ==
    [type |-> type, id |-> id, characters |-> characters, kids |-> kids,
     min |-> min, max |-> max]

\* a + b and a * b on quantifier bounds, where max may be Infinity
addBound(a, b) == IF a = Infinity \/ b = Infinity THEN Infinity ELSE a + b
safeMultiply(a, b) ==
    IF a = 0 \/ b = 0 THEN 0
    ELSE IF a = Infinity \/ b = Infinity THEN Infinity
    ELSE a * b

\* ---- TransitionCreator: counter and max; `failed` once TooManyNodesError was
\* thrown (the conversion is then over: nothing is created any more); `alloc`
\* counts every node object allocated, by the factory or by an object literal.
TransitionCreator(max) == [counter |-> 0, max |-> max, failed |-> FALSE, alloc |-> 0]

\* mutant: the ceiling is tested before the increment (`_counter++ > max`)
incrementCounter_offByOne(tc) ==
    IF tc.failed THEN tc
    ELSE IF tc.counter > tc.max
    THEN [tc EXCEPT !.counter = @ + 1, !.failed = TRUE]
    ELSE [tc EXCEPT !.counter = @ + 1]

incrementCounter(tc) ==
    IF tc.failed THEN tc
    ELSE IF tc.counter + 1 > tc.max
    THEN [tc EXCEPT !.counter = @ + 1, !.failed = TRUE]
    ELSE [tc EXCEPT !.counter = @ + 1]

\* an object literal `{ type: ... }`: a node the counter does not see
literal(tc, type, characters, kids, min, max) ==
    IF tc.failed
    THEN [tc |-> tc, n |-> Node(type, 0, characters, kids, min, max)]
    ELSE [tc |-> [tc EXCEPT !.alloc = @ + 1],
          n |-> Node(type, tc.alloc + 1, characters, kids, min, max)]

\* a factory method: _incrementCounter(), then the object literal
create(tc, type, characters, kids, min, max) ==
    literal(incrementCounter(tc), type, characters, kids, min, max)

tc_concat(tc, elements) == create(tc, "Concatenation", noCharacters, elements, 0, 0)
tc_emptyConcat(tc) == create(tc, "Concatenation", noCharacters, <<>>, 0, 0)
tc_alter(tc, alternatives) == create(tc, "Alternation", noCharacters, alternatives, 0, 0)
tc_expression(tc, alternatives) == create(tc, "Expression", noCharacters, alternatives, 0, 0)
tc_emptyExpression(tc) == create(tc, "Expression", noCharacters, <<>>, 0, 0)
tc_char(tc, characters) == create(tc, "CharacterClass", characters, <<>>, 0, 0)
tc_quant(tc, alternatives, min, max) ==
    create(tc, "Quantifier", noCharacters, alternatives, min, max)
tc_quantStar(tc, alternatives) ==
    create(tc, "Quantifier", noCharacters, alternatives, 0, Infinity)
tc_quantPlus(tc, alternatives) ==
    create(tc, "Quantifier", noCharacters, alternatives, 1, Infinity)

\* copy: the children are copied first (the argument of alter/concat/quant),
\* then the node itself is created
RECURSIVE tc_copy(_, _), copyAll(_, _, _, _)
copyAll(tc, kids, k, acc) ==
    IF k > Len(kids) THEN [tc |-> tc, kids |-> acc]
    ELSE Let([c \in {tc_copy(tc, kids[k])} |->
            copyAll(c.tc, kids, k + 1, Append(acc, c.n))])
\* mutant: copy returns its argument
tc_copy_alias(tc, t) == [tc |-> tc, n |-> t]

tc_copy(tc, t) ==
    IF t.type = "CharacterClass" THEN tc_char(tc, t.characters)
    ELSE Let([c \in {copyAll(tc, t.kids, 1, <<>>)} |->
            IF t.type = "Alternation" THEN tc_alter(c.tc, c.kids)
            ELSE IF t.type = "Concatenation" THEN tc_concat(c.tc, c.kids)
            ELSE tc_quant(c.tc, c.kids, t.min, t.max)])

\* ---- structurallyEqual
RECURSIVE structurallyEqual(_, _)
structurallyEqual(a, b) ==
    IF a.type # b.type THEN FALSE
    ELSE IF a.type = "CharacterClass" THEN CharSet_equals(a.characters, b.characters)
    ELSE /\ (a.type = "Quantifier" => (a.min = b.min /\ a.max = b.max))
         /\ Len(a.kids) = Len(b.kids)
         /\ \A i \in 1..Len(a.kids) : structurallyEqual(a.kids[i], b.kids[i])

structurallyEqualConcatenation(a, b) ==
    /\ Len(a.kids) = Len(b.kids)
    /\ \A i \in 1..Len(a.kids) : structurallyEqual(a.kids[i], b.kids[i])

structurallyEqualAlternatives(a, b) ==
    /\ Len(a) = Len(b)
    /\ \A i \in 1..Len(a) : structurallyEqualConcatenation(a[i], b[i])

\* ---- canMatchEmptyString
RECURSIVE canMatchEmptyString(_)
canMatchEmptyString(value) ==
    IF value.type = "CharacterClass" THEN FALSE
    ELSE IF value.type \in {"Alternation", "Expression"}
    THEN \E i \in 1..Len(value.kids) : canMatchEmptyString(value.kids[i])
    ELSE IF value.type = "Concatenation"
    THEN \A i \in 1..Len(value.kids) : canMatchEmptyString(value.kids[i])
    ELSE value.min = 0 \/ \E i \in 1..Len(value.kids) : canMatchEmptyString(value.kids[i])

\* ---- factorOutCommonPreAndSuffix
\* the first of the shortest `elements` arrays (a stable sort by length)
shortestOf(alternatives) ==
    LET i == CHOOSE i \in 1..Len(alternatives) :
                 /\ \A j \in 1..Len(alternatives) :
                        Len(alternatives[i].kids) <= Len(alternatives[j].kids)
                 /\ \A j \in 1..(i - 1) :
                        Len(alternatives[j].kids) > Len(alternatives[i].kids)
    IN alternatives[i].kids

RECURSIVE prefixLengthOf(_, _, _), suffixLengthOf(_, _, _, _)
prefixLengthOf(alternatives, shortest, i) ==
    IF i < Len(shortest)
       /\ \A c \in 1..Len(alternatives) :
              structurallyEqual(shortest[i + 1], alternatives[c].kids[i + 1])
    THEN prefixLengthOf(alternatives, shortest, i + 1)
    ELSE i
suffixLengthOf(alternatives, shortest, prefixLength, i) ==
    IF i < Len(shortest) - prefixLength
       /\ \A c \in 1..Len(alternatives) :
              structurallyEqual(shortest[Len(shortest) - i],
                                alternatives[c].kids[Len(alternatives[c].kids) - i])
    THEN suffixLengthOf(alternatives, shortest, prefixLength, i + 1)
    ELSE i

factorOutCommonPreAndSuffix(tc, parent) ==
    IF Len(parent.kids) >= 2
    THEN Let([shortest \in {shortestOf(parent.kids)} |->
             Let([prefixLength \in {prefixLengthOf(parent.kids, shortest, 0)} |->
             Let([suffixLength \in {suffixLengthOf(parent.kids, shortest, prefixLength, 0)} |->
            IF prefixLength > 0 \/ suffixLength > 0
            THEN Let([prefix \in {SubSeq(shortest, 1, prefixLength)} |->
                     Let([suffix \in {SubSeq(shortest, Len(shortest) - suffixLength + 1, Len(shortest))} |->
                     Let([alternatives \in {
                         [c \in 1..Len(parent.kids) |->
                             [parent.kids[c] EXCEPT !.kids =
                                 SubSeq(@, prefixLength + 1, Len(@) - suffixLength)]]} |->
                     \* the outer literal is allocated before the inner one
                     Let([outer \in {literal(tc, "Concatenation", noCharacters, <<>>, 0, 0)} |->
                     Let([inner \in {literal(outer.tc, "Alternation", noCharacters, alternatives, 0, 0)} |->
                    [tc |-> inner.tc,
                     n |-> [parent EXCEPT !.kids =
                              <<[outer.n EXCEPT !.kids = prefix \o <<inner.n>> \o suffix]>>],
                     changed |-> TRUE]])])])])])
            ELSE [tc |-> tc, n |-> parent, changed |-> FALSE]])])])
    ELSE [tc |-> tc, n |-> parent, changed |-> FALSE]

\* ---- inlineConcat: the loop over i (1-based here); `i--` re-examines the
\* first spliced element
RECURSIVE inlineConcatLoop(_, _, _, _)
inlineConcatLoop(tc, elements, i, inlined) ==
    IF i > Len(elements) THEN [tc |-> tc, kids |-> elements, changed |-> inlined]
    ELSE Let([e0 \in {elements[i]} |->
             Let([canInline \in {
                 /\ e0.type = "Quantifier" /\ e0.max = 1
                 /\ \/ e0.min = 1
                    \/ (e0.min = 0 /\ \E k \in 1..Len(e0.kids) : canMatchEmptyString(e0.kids[k]))} |->
             Let([made \in {IF canInline
                     THEN literal(tc, "Alternation", noCharacters, e0.kids, 0, 0)
                     ELSE [tc |-> tc, n |-> e0]} |->
             Let([e \in {made.n} |->
            IF e.type = "Alternation" /\ Len(e.kids) = 1
            THEN inlineConcatLoop(made.tc,
                    SubSeq(elements, 1, i - 1) \o e.kids[1].kids
                        \o SubSeq(elements, i + 1, Len(elements)),
                    i, TRUE)
            ELSE inlineConcatLoop(made.tc, [elements EXCEPT ![i] = e], i + 1,
                                  inlined \/ canInline)])])])])

inlineConcat(tc, concat) ==
    Let([r \in {inlineConcatLoop(tc, concat.kids, 1, FALSE)} |->
       [tc |-> r.tc, n |-> [concat EXCEPT !.kids = r.kids], changed |-> r.changed]])

\* ---- the combinators of eliminateStates; each returns [tc, n]
asConcatenation(tc, a) ==
    IF a.type = "Concatenation" THEN [tc |-> tc, n |-> a] ELSE tc_concat(tc, <<a>>)

\* factorOutCommonPreAndSuffix(x) when x is an Alternation, else nothing
factorIfAlternation(tc, x) ==
    IF x.type = "Alternation"
    THEN Let([f \in {factorOutCommonPreAndSuffix(tc, x)} |-> [tc |-> f.tc, n |-> f.n]])
    ELSE [tc |-> tc, n |-> x]

dropChanged(r) == [tc |-> r.tc, n |-> r.n]

\* mutant: concat returns its first operand and forgets the second
concat_dropsRight(tc, a, b) == [tc |-> tc, n |-> a]

concat(tc, a, b) ==
    IF a.type = "Concatenation"
    THEN IF Len(a.kids) = 0 THEN [tc |-> tc, n |-> b]
         ELSE IF b.type = "Concatenation"
         THEN dropChanged(inlineConcat(tc, [a EXCEPT !.kids = @ \o b.kids]))
         ELSE Let([fb \in {factorIfAlternation(tc, b)} |->
                 dropChanged(inlineConcat(fb.tc, [a EXCEPT !.kids = Append(@, fb.n)]))])
    ELSE IF b.type = "Concatenation"
    THEN IF Len(b.kids) = 0 THEN [tc |-> tc, n |-> a]
         ELSE Let([fa \in {factorIfAlternation(tc, a)} |->
                 dropChanged(inlineConcat(fa.tc, [b EXCEPT !.kids = <<fa.n>> \o @]))])
    ELSE Let([fa \in {factorIfAlternation(tc, a)} |->
             Let([fb \in {factorIfAlternation(fa.tc, b)} |->
             Let([newConcat \in {tc_concat(fb.tc, <<fa.n, fb.n>>)} |->
            dropChanged(inlineConcat(newConcat.tc, newConcat.n))])])])

charsUnion(a, b) == CharSet_union(a, <<argSet(b)>>).val

isSingleCharAlt(alt) == Len(alt.kids) = 1 /\ alt.kids[1].type = "CharacterClass"

\* unionAlternationAndCharClass: the first alternative that is one
\* CharacterClass takes the characters; else a new alternative is pushed
unionAlternationAndCharClass(tc, alternation, char) ==
    IF \E i \in 1..Len(alternation.kids) : isSingleCharAlt(alternation.kids[i])
    THEN Let([i \in {CHOOSE i \in 1..Len(alternation.kids) :
                      /\ isSingleCharAlt(alternation.kids[i])
                      /\ \A j \in 1..(i - 1) : ~isSingleCharAlt(alternation.kids[j])} |->
            [tc |-> tc,
             n |-> [alternation EXCEPT !.kids[i].kids[1].characters =
                                         charsUnion(@, char.characters)]]])
    ELSE Let([c \in {asConcatenation(tc, char)} |->
            [tc |-> c.tc, n |-> [alternation EXCEPT !.kids = Append(@, c.n)]]])

\* the loop `for (const alt of b.alternatives)` of union
RECURSIVE unionAlternatives(_, _, _, _)
unionAlternatives(tc, a, alts, k) ==
    IF k > Len(alts) THEN [tc |-> tc, n |-> a]
    ELSE IF isSingleCharAlt(alts[k])
    THEN Let([r \in {unionAlternationAndCharClass(tc, a, alts[k].kids[1])} |->
            unionAlternatives(r.tc, r.n, alts, k + 1)])
    ELSE unionAlternatives(tc, [a EXCEPT !.kids = Append(@, alts[k])], alts, k + 1)

\* mutant: the union of two CharacterClasses keeps the first one only
union_keepsFirstClass(tc, a, b) ==
    IF a.type = "CharacterClass" /\ b.type = "CharacterClass"
    THEN [tc |-> tc, n |-> a]
    ELSE Let([ca \in {asConcatenation(tc, a)} |->
             Let([cb \in {asConcatenation(ca.tc, b)} |->
            tc_alter(cb.tc, <<ca.n, cb.n>>)])])

union(tc, a, b) ==
    IF a.type = "CharacterClass" /\ b.type = "CharacterClass"
    THEN [tc |-> tc, n |-> [a EXCEPT !.characters = charsUnion(@, b.characters)]]
    ELSE IF a.type = "Alternation"
    THEN IF Len(a.kids) = 0 THEN [tc |-> tc, n |-> b]
         ELSE IF b.type = "Alternation"
         THEN IF Len(b.kids) = 0 THEN [tc |-> tc, n |-> a]
              ELSE unionAlternatives(tc, a, b.kids, 1)
         ELSE IF b.type = "CharacterClass"
         THEN unionAlternationAndCharClass(tc, a, b)
         ELSE Let([c \in {asConcatenation(tc, b)} |->
                 [tc |-> c.tc, n |-> [a EXCEPT !.kids = Append(@, c.n)]]])
    ELSE IF b.type = "Alternation"
    THEN IF Len(b.kids) = 0 THEN [tc |-> tc, n |-> a]
         ELSE IF a.type = "CharacterClass"
         THEN unionAlternationAndCharClass(tc, b, a)
         ELSE Let([c \in {asConcatenation(tc, a)} |->
                 [tc |-> c.tc, n |-> [b EXCEPT !.kids = Append(@, c.n)]]])
    ELSE Let([ca \in {asConcatenation(tc, a)} |->
             Let([cb \in {asConcatenation(ca.tc, b)} |->
            tc_alter(cb.tc, <<ca.n, cb.n>>)])])

\* mutant: star builds a `+` quantifier
star_asPlus(tc, a) ==
    IF a.type = "Concatenation" /\ Len(a.kids) = 0 THEN [tc |-> tc, n |-> a]
    ELSE IF a.type = "Alternation" THEN tc_quantPlus(tc, a.kids)
    ELSE Let([c \in {asConcatenation(tc, a)} |-> tc_quantPlus(c.tc, <<c.n>>)])

star(tc, a) ==
    IF a.type = "Quantifier"
    THEN IF a.max = 0 THEN tc_emptyConcat(tc)
         ELSE IF a.min = 0 \/ a.min = 1
         THEN [tc |-> tc, n |-> [a EXCEPT !.min = 0, !.max = Infinity]]
         ELSE Let([c \in {asConcatenation(tc, a)} |-> tc_quantStar(c.tc, <<c.n>>)])
    ELSE IF a.type = "Alternation" THEN tc_quantStar(tc, a.kids)
    ELSE IF a.type = "Concatenation"
    THEN IF Len(a.kids) = 0 THEN [tc |-> tc, n |-> a]
         ELSE tc_quantStar(tc, <<a>>)
    ELSE Let([c \in {asConcatenation(tc, a)} |-> tc_quantStar(c.tc, <<c.n>>)])

plus(tc, a) ==
    IF a.type = "Quantifier"
    THEN IF a.max = 0 THEN tc_emptyConcat(tc)
         ELSE IF a.min = 0
         THEN [tc |-> tc, n |-> [a EXCEPT !.min = 0, !.max = Infinity]]
         ELSE IF a.min = 1
         THEN [tc |-> tc, n |-> [a EXCEPT !.max = Infinity]]
         ELSE Let([c \in {asConcatenation(tc, a)} |-> tc_quantPlus(c.tc, <<c.n>>)])
    ELSE IF a.type = "Alternation" THEN tc_quantPlus(tc, a.kids)
    ELSE IF a.type = "Concatenation"
    THEN IF Len(a.kids) = 0 THEN [tc |-> tc, n |-> a]
         ELSE tc_quantPlus(tc, <<a>>)
    ELSE Let([c \in {asConcatenation(tc, a)} |-> tc_quantPlus(c.tc, <<c.n>>)])

\* ---- Map and Set of JavaScript: entries [k, v] in insertion order; a Set is
\* a sequence without duplicates
mapHas(m, k) == \E i \in 1..Len(m) : m[i].k = k
mapGet(m, k) == m[CHOOSE i \in 1..Len(m) : m[i].k = k].v
mapSet(m, k, v) ==
    IF mapHas(m, k)
    THEN [i \in 1..Len(m) |-> IF m[i].k = k THEN [k |-> k, v |-> v] ELSE m[i]]
    ELSE Append(m, [k |-> k, v |-> v])
mapDelete(m, k) == SelectSeq(m, LAMBDA e : e.k # k)
mapKeys(m) == [i \in 1..Len(m) |-> m[i].k]
setAdd(q, x) == IF x \in Range(q) THEN q ELSE Append(q, x)
setDelete(q, x) == SelectSeq(q, LAMBDA e : e # x)
RECURSIVE setAddAll(_, _)
setAddAll(q, xs) == IF xs = <<>> THEN q ELSE setAddAll(setAdd(q, Head(xs)), Tail(xs))

\* ---- NodeList.  Nodes are numbers: `initial` is 0, the node translate(s)
\* of the FA state s is s, and tempFinal is NumNodes - 1.
initialNode == 0
NodeList(nodes) ==
    [in |-> [n \in nodes |-> <<>>], out |-> [n \in nodes |-> <<>>],
     finals |-> <<>>, err |-> "none"]

\* createNode: a node with two empty maps; the nodes are numbered as created
createNode(nodeList, n) ==
    [in |-> [x \in DOMAIN nodeList.in \cup {n} |->
                IF x \in DOMAIN nodeList.in THEN nodeList.in[x] ELSE <<>>],
     out |-> [x \in DOMAIN nodeList.out \cup {n} |->
                IF x \in DOMAIN nodeList.out THEN nodeList.out[x] ELSE <<>>],
     finals |-> nodeList.finals, err |-> nodeList.err]

\* mutant: linkNodes records the edge in from.out only
linkNodes_outOnly(nodeList, from, to, transition) ==
    IF mapHas(nodeList.out[from], to)
    THEN [nodeList EXCEPT !.err = "AlreadyLinked"]
    ELSE [nodeList EXCEPT !.out[from] = mapSet(@, to, transition)]

linkNodes(nodeList, from, to, transition) ==
    IF mapHas(nodeList.out[from], to)
    THEN [nodeList EXCEPT !.err = "AlreadyLinked"]
    ELSE Let([o \in {[nodeList EXCEPT !.out[from] = mapSet(@, to, transition)]} |->
            [o EXCEPT !.in[to] = mapSet(@, from, transition)]])

\* unlinkNodes returns the transition, or undefined (found = FALSE)
unlinkNodes(nodeList, from, to) ==
    IF mapHas(nodeList.out[from], to)
    THEN Let([o \in {[nodeList EXCEPT !.out[from] = mapDelete(@, to)]} |->
            [g |-> [o EXCEPT !.in[to] = mapDelete(@, from)],
             found |-> TRUE, t |-> mapGet(nodeList.out[from], to)]])
    ELSE [g |-> nodeList, found |-> FALSE, t |-> Node("undefined", 0, noCharacters, <<>>, 0, 0)]

\* (a relink that links the two nodes when they are not linked)
relinkNodes_linksMissing(nodeList, from, to, newTransition) ==
    Let([o \in {[nodeList EXCEPT !.out[from] = mapSet(@, to, newTransition)]} |->
       [o EXCEPT !.in[to] = mapSet(@, from, newTransition)]])

relinkNodes(nodeList, from, to, newTransition) ==
    IF ~mapHas(nodeList.out[from], to)
    THEN [nodeList EXCEPT !.err = "NotLinked"]
    ELSE Let([o \in {[nodeList EXCEPT !.out[from] = mapSet(@, to, newTransition)]} |->
            [o EXCEPT !.in[to] = mapSet(@, from, newTransition)]])

\* ---- DFS (util): a stack of elements to visit; `succ` maps an element to the
\* sequence next(element).  The result is the sequence of the elements in the
\* order of their visit, which is the order of the calls of `next`.
RECURSIVE dfsLoop(_, _, _)
dfsLoop(stack, visited, succ) ==
    IF stack = <<>> THEN visited
    ELSE LET element == stack[Len(stack)]
             rest == SubSeq(stack, 1, Len(stack) - 1)
         IN IF element \in Range(visited)
            THEN dfsLoop(rest, visited, succ)
            ELSE dfsLoop(rest \o succ[element], Append(visited, element), succ)
DFS(startElement, succ) == dfsLoop(<<startElement>>, <<>>, succ)

\* ---- createNodeList
tempInitial == 1
tempFinal == NumStates + 1
Nodes == 0..(NumStates + 1)

\* the comparator of the sort of the out transitions
RECURSIVE compareRanges(_, _, _)
compareRanges(a, b, i) ==
    IF i > Min2(Len(a), Len(b)) THEN Len(a) - Len(b)
    ELSE IF a[i].min # b[i].min THEN a[i].min - b[i].min
    ELSE IF a[i].max # b[i].max THEN a[i].max - b[i].max
    ELSE compareRanges(a, b, i + 1)

\* mutant: empty CharSets sort first
compareOut_emptyFirst(a, b) ==
    Let([diff \in {(IF isEmpty(b) THEN 1 ELSE 0) - (IF isEmpty(a) THEN 1 ELSE 0)} |->
       IF diff # 0 THEN diff ELSE compareRanges(a.ranges, b.ranges, 1)])

compareOut(a, b) ==
    Let([diff \in {(IF isEmpty(a) THEN 1 ELSE 0) - (IF isEmpty(b) THEN 1 ELSE 0)} |->
       IF diff # 0 THEN diff ELSE compareRanges(a.ranges, b.ranges, 1)])

\* [...iter.getOut(n)].sort(compare): a stable sort of the entries [to, cs]
RECURSIVE insertOut(_, _)
insertOut(sorted, e) ==
    IF sorted = <<>> THEN <<e>>
    ELSE IF compareOut(sorted[Len(sorted)].cs, e.cs) <= 0 THEN Append(sorted, e)
    ELSE Append(insertOut(SubSeq(sorted, 1, Len(sorted) - 1), e), sorted[Len(sorted)])
RECURSIVE sortOut(_)
sortOut(edges) ==
    IF edges = <<>> THEN <<>>
    ELSE insertOut(sortOut(SubSeq(edges, 1, Len(edges) - 1)), edges[Len(edges)])

\* out.forEach(([outNode, charSet]) => linkNodes(n, outNode, tc.char(charSet)))
RECURSIVE linkOut(_, _, _, _, _)
linkOut(g, tc, n, out, k) ==
    IF k > Len(out) THEN [g |-> g, tc |-> tc]
    ELSE Let([c \in {tc_char(tc, out[k].cs)} |->
            linkOut(linkNodes(g, n, out[k].to, c.n), c.tc, n, out, k + 1)])

\* the callback of the first DFS, for the states of `order` from index k
RECURSIVE visitStates(_, _, _, _, _)
visitStates(fa, g, tc, order, k) ==
    IF k > Len(order) THEN [g |-> g, tc |-> tc]
    ELSE Let([n \in {order[k]} |->
             Let([g1 \in {IF n \in fa.final THEN [g EXCEPT !.finals = setAdd(@, n)] ELSE g} |->
             Let([l \in {linkOut(g1, tc, n, sortOut(fa.out[n]), 1)} |->
            visitStates(fa, l.g, l.tc, order, k + 1)])])])

\* finals.forEach(n => linkNodes(n, tempFinal, tc.emptyConcat()))
RECURSIVE linkFinals(_, _, _, _)
linkFinals(g, tc, finals, k) ==
    IF k > Len(finals) THEN [g |-> g, tc |-> tc]
    ELSE Let([c \in {tc_emptyConcat(tc)} |->
            linkFinals(linkNodes(g, finals[k], tempFinal, c.n), c.tc, finals, k + 1)])

\* n.out.forEach((_, outNode) => unlinkNodes(n, outNode)) and the same for n.in
RECURSIVE unlinkOutAll(_, _, _, _), unlinkInAll(_, _, _, _)
unlinkOutAll(g, n, keys, k) ==
    IF k > Len(keys) THEN g ELSE unlinkOutAll(unlinkNodes(g, n, keys[k]).g, n, keys, k + 1)
unlinkInAll(g, n, keys, k) ==
    IF k > Len(keys) THEN g ELSE unlinkInAll(unlinkNodes(g, keys[k], n).g, n, keys, k + 1)
isolate(g, n) ==
    Let([g1 \in {unlinkOutAll(g, n, mapKeys(g.out[n]), 1)} |->
       unlinkInAll(g1, n, mapKeys(g1.in[n]), 1)])
RECURSIVE isolateAll(_, _, _)
isolateAll(g, dead, k) ==
    IF k > Len(dead) THEN g ELSE isolateAll(isolate(g, dead[k]), dead, k + 1)

outKeys(g) == [n \in Nodes |-> mapKeys(g.out[n])]
inKeys(g) == [n \in Nodes |-> mapKeys(g.in[n])]

\* mutant: the states that cannot reach tempFinal keep their edges
prune_keepsDead(g) == g

prune(g) ==
    Let([alive \in {Range(DFS(tempFinal, inKeys(g)))} |->
        Let([dead \in {SelectSeq(DFS(initialNode, outKeys(g)), LAMBDA n : n \notin alive)} |->
       isolateAll(g, dead, 1)])])

\* mutant: the builder never finds the language empty
noFinals_never(g) == FALSE

\* `nodeList.finals.size === 0`
noFinals(g) == Len(g.finals) = 0

\* createNodeList returns the NodeList, or null when no final state was reached
createNodeList(fa, tc) ==
    Let([c0 \in {tc_emptyConcat(tc)} |->
        Let([g0 \in {linkNodes(NodeList(Nodes), initialNode, tempInitial, c0.n)} |->
        Let([order \in {DFS(1, [s \in 1..NumStates |->
                            [i \in 1..Len(fa.out[s]) |-> sortOut(fa.out[s])[i].to]])} |->
        Let([v \in {visitStates(fa, g0, c0.tc, order, 1)} |->
       IF noFinals(v.g)
       THEN [isNull |-> TRUE, g |-> v.g, tc |-> v.tc]
       ELSE Let([f \in {linkFinals(v.g, v.tc, v.g.finals, 1)} |->
               [isNull |-> FALSE,
                g |-> prune([f.g EXCEPT !.finals = <<tempFinal>>]),
                tc |-> f.tc]])])])])])

\* ---- eliminateStates.  Its state is es = [g, tc, remaining]: the NodeList,
\* the TransitionCreator and remainingStates (a Set, in insertion order).
remainingOf(g) ==
    SelectSeq(DFS(initialNode, outKeys(g)),
              LAMBDA n : n # initialNode /\ n # g.finals[1])

withGraph(es, g) == [es EXCEPT !.g = g]

linkWithUnion(es, from, to, trans) ==
    Let([u \in {unlinkNodes(es.g, from, to)} |->
       IF u.found
       THEN Let([r \in {union(es.tc, u.t, trans)} |->
               [es EXCEPT !.g = linkNodes(u.g, from, to, r.n), !.tc = r.tc]])
       ELSE [es EXCEPT !.g = linkNodes(u.g, from, to, trans)]])

\* relinkNodes(from, to, concat(star(refTrans), outTrans)) or plus(refTrans)
loopIntoOut(es, g1, state, refTrans) ==
    LET outE == g1.out[state][1]
    IN IF structurallyEqual(refTrans, outE.v)
       THEN Let([p \in {plus(es.tc, refTrans)} |->
               [es EXCEPT !.g = relinkNodes(g1, state, outE.k, p.n), !.tc = p.tc]])
       ELSE Let([st \in {star(es.tc, refTrans)} |->
                Let([c \in {concat(st.tc, st.n, outE.v)} |->
               [es EXCEPT !.g = relinkNodes(g1, state, outE.k, c.n), !.tc = c.tc]])])

removeTrivialReflexiveTransition(es, state) ==
    IF mapHas(es.g.out[state], state)
    THEN IF Len(es.g.in[state]) = 2 /\ Len(es.g.out[state]) = 2
         THEN Let([u \in {unlinkNodes(es.g, state, state)} |->
                  Let([inE \in {u.g.in[state][1]} |->
                 IF structurallyEqual(inE.v, u.t)
                 THEN Let([p \in {plus(es.tc, u.t)} |->
                         [es EXCEPT !.g = relinkNodes(u.g, inE.k, state, p.n), !.tc = p.tc]])
                 ELSE loopIntoOut(es, u.g, state, u.t)])])
         ELSE IF Len(es.g.out[state]) = 2
         THEN Let([u \in {unlinkNodes(es.g, state, state)} |->
                 loopIntoOut(es, u.g, state, u.t)])
         ELSE IF Len(es.g.in[state]) = 2
         THEN Let([u \in {unlinkNodes(es.g, state, state)} |->
                  Let([inE \in {u.g.in[state][1]} |->
                 IF structurallyEqual(inE.v, u.t)
                 THEN Let([p \in {plus(es.tc, u.t)} |->
                         [es EXCEPT !.g = relinkNodes(u.g, inE.k, state, p.n), !.tc = p.tc]])
                 ELSE Let([st \in {star(es.tc, u.t)} |->
                          Let([c \in {concat(st.tc, inE.v, st.n)} |->
                         [es EXCEPT !.g = relinkNodes(u.g, inE.k, state, c.n), !.tc = c.tc]])])])])
         ELSE es
    ELSE es

\* mutant: the sizes of state.in and state.out are not tested
removeTrivialConcat_anySize(es, state) ==
    IF Len(es.g.in[state]) >= 1 /\ Len(es.g.out[state]) >= 1
    THEN Let([inE \in {es.g.in[state][1]} |->
             Let([outE \in {es.g.out[state][1]} |->
             Let([g1 \in {unlinkNodes(es.g, inE.k, state).g} |->
             Let([g2 \in {unlinkNodes(g1, state, outE.k).g} |->
             Let([c \in {concat(es.tc, inE.v, outE.v)} |->
             Let([l \in {linkWithUnion([es EXCEPT !.g = g2, !.tc = c.tc], inE.k, outE.k, c.n)} |->
            [es |-> [l EXCEPT !.remaining = setDelete(@, state)],
             folded |-> TRUE, affected |-> <<inE.k, outE.k>>]])])])])])])
    ELSE [es |-> es, folded |-> FALSE, affected |-> <<>>]

\* removeTrivialConcat returns the affected states, or null (folded = FALSE)
removeTrivialConcat(es, state) ==
    IF Len(es.g.in[state]) = 1 /\ Len(es.g.out[state]) = 1
    THEN Let([inE \in {es.g.in[state][1]} |->
             Let([outE \in {es.g.out[state][1]} |->
             Let([g1 \in {unlinkNodes(es.g, inE.k, state).g} |->
             Let([g2 \in {unlinkNodes(g1, state, outE.k).g} |->
             Let([c \in {concat(es.tc, inE.v, outE.v)} |->
             Let([l \in {linkWithUnion([es EXCEPT !.g = g2, !.tc = c.tc], inE.k, outE.k, c.n)} |->
            [es |-> [l EXCEPT !.remaining = setDelete(@, state)],
             folded |-> TRUE, affected |-> <<inE.k, outE.k>>]])])])])])])
    ELSE [es |-> es, folded |-> FALSE, affected |-> <<>>]

\* trivialOperations: the forEach over toProcess from index k, then the next round
RECURSIVE trivialRound(_, _, _, _)
trivialRound(es, toProcess, k, newToProcess) ==
    IF k > Len(toProcess) THEN [es |-> es, newToProcess |-> newToProcess]
    ELSE IF toProcess[k] \notin Range(es.remaining)
    THEN trivialRound(es, toProcess, k + 1, newToProcess)
    ELSE Let([r \in {removeTrivialReflexiveTransition(es, toProcess[k])} |->
             Let([c \in {removeTrivialConcat(r, toProcess[k])} |->
            trivialRound(c.es, toProcess, k + 1, setAddAll(newToProcess, c.affected))])])

RECURSIVE trivialOperations(_, _)
trivialOperations(es, toProcess) ==
    IF Len(toProcess) > 0
    THEN Let([r \in {trivialRound(es, toProcess, 1, <<>>)} |->
            trivialOperations(r.es, r.newToProcess)])
    ELSE es

\* removeState: the two nested forEach loops over state.in and state.out
RECURSIVE bypass(_, _, _, _, _, _, _, _)
bypass(es, ins, outs, i, o, hasRef, refStar, state) ==
    IF i > Len(ins) THEN es
    ELSE IF o > Len(outs) THEN bypass(es, ins, outs, i + 1, 1, hasRef, refStar, state)
    ELSE Let([ci \in {tc_copy(es.tc, ins[i].v)} |->
             Let([t \in {IF hasRef
                  THEN Let([cr \in {tc_copy(ci.tc, refStar)} |->
                           Let([co \in {tc_copy(cr.tc, outs[o].v)} |->
                           Let([inner \in {concat(co.tc, cr.n, co.n)} |->
                          concat(inner.tc, ci.n, inner.n)])])])
                  ELSE Let([co \in {tc_copy(ci.tc, outs[o].v)} |->
                          concat(co.tc, ci.n, co.n)])} |->
            bypass(linkWithUnion([es EXCEPT !.tc = t.tc], ins[i].k, outs[o].k, t.n),
                   ins, outs, i, o + 1, hasRef, refStar, state)])])

\* mutant: `affected.delete(state)` is forgotten
affectedOf_withState(g, state) ==
    setAddAll(setAddAll(<<>>, mapKeys(g.in[state])), mapKeys(g.out[state]))

affectedOf(g, state) ==
    setDelete(setAddAll(setAddAll(<<>>, mapKeys(g.in[state])), mapKeys(g.out[state])), state)

\* (a removal that leaves the edges of the removed state in place)
removeState_keepsEdges(es, state) ==
    Let([affected \in {affectedOf(es.g, state)} |->
        Let([u \in {unlinkNodes(es.g, state, state)} |->
        Let([st \in {IF u.found THEN star(es.tc, u.t) ELSE [tc |-> es.tc, n |-> u.t]} |->
        Let([b \in {bypass([es EXCEPT !.g = u.g, !.tc = st.tc],
                    u.g.in[state], u.g.out[state], 1, 1, u.found, st.n, state)} |->
       [es |-> [b EXCEPT !.remaining = setDelete(@, state)],
        affected |-> affected]])])])])

removeState(es, state) ==
    Let([affected \in {affectedOf(es.g, state)} |->
        Let([u \in {unlinkNodes(es.g, state, state)} |->
        Let([st \in {IF u.found THEN star(es.tc, u.t) ELSE [tc |-> es.tc, n |-> u.t]} |->
        Let([b \in {bypass([es EXCEPT !.g = u.g, !.tc = st.tc],
                    u.g.in[state], u.g.out[state], 1, 1, u.found, st.n, state)} |->
       [es |-> [b EXCEPT !.g = isolate(b.g, state), !.remaining = setDelete(@, state)],
        affected |-> affected]])])])])

\* mutant: a self-loop is charged like any other edge
cost_noLoop(g, state) == Len(g.in[state]) * Len(g.out[state]) * 2

\* the cost function of the main loop
cost(g, state) ==
    IF mapHas(g.out[state], state)
    THEN (Len(g.in[state]) - 1) * (Len(g.out[state]) - 1) * 3
    ELSE Len(g.in[state]) * Len(g.out[state]) * 2

\* minOf (util): the first element of least cost
minOf(g, remaining) ==
    remaining[CHOOSE i \in 1..Len(remaining) :
                  /\ \A j \in 1..Len(remaining) : cost(g, remaining[i]) <= cost(g, remaining[j])
                  /\ \A j \in 1..(i - 1) : cost(g, remaining[j]) > cost(g, remaining[i])]

\* one iteration of `while (remainingStates.size > 0)`
eliminateOne(es) ==
    Let([r \in {removeState(es, minOf(es.g, es.remaining))} |->
       trivialOperations(r.es, r.affected)])

RECURSIVE eliminateLoop(_)
eliminateLoop(es) == IF Len(es.remaining) > 0 THEN eliminateLoop(eliminateOne(es)) ELSE es

eliminateStates(g, tc) ==
    Let([es0 \in {[g |-> g, tc |-> tc, remaining |-> remainingOf(g)]} |->
       eliminateLoop(trivialOperations(es0, es0.remaining))])

\* the end of stateElimination: the check of the final state and the Expression
finishElimination(es) ==
    LET finalState == es.g.finals[1]
        in == es.g.in[finalState]
    IN IF Len(in) # 1 \/ ~mapHas(in, initialNode)
       THEN [err |-> "StateEliminationFailed", tc |-> es.tc,
             n |-> Node("undefined", 0, noCharacters, <<>>, 0, 0)]
       ELSE Let([transition \in {mapGet(in, initialNode)} |->
                Let([e \in {IF transition.type = "Alternation"
                     THEN tc_expression(es.tc, transition.kids)
                     ELSE IF transition.type = "Concatenation"
                     THEN tc_expression(es.tc, <<transition>>)
                     ELSE Let([c \in {tc_concat(es.tc, <<transition>>)} |->
                             tc_expression(c.tc, <<c.n>>)])} |->
               [err |-> "none", tc |-> e.tc, n |-> e.n]])])

\* ---- the simplifier; each rewrite returns [tc, n, changed]
getSingleElement(parent, type) ==
    IF /\ Len(parent.kids) = 1
       /\ Len(parent.kids[1].kids) = 1
       /\ parent.kids[1].kids[1].type = type
    THEN <<parent.kids[1].kids[1]>>
    ELSE <<>>

RECURSIVE equalToQuantifiedElement(_, _)
equalToQuantifiedElement(quant, element) ==
    IF element.type = "Alternation"
    THEN structurallyEqualAlternatives(quant.kids, element.kids)
    ELSE IF element.type = "Concatenation"
    THEN IF Len(element.kids) = 1
         THEN equalToQuantifiedElement(quant, element.kids[1])
         ELSE Len(quant.kids) = 1 /\ structurallyEqualConcatenation(quant.kids[1], element)
    ELSE IF Len(quant.kids) = 1 /\ Len(quant.kids[1].kids) = 1
         THEN structurallyEqual(quant.kids[1].kids[1], element)
         ELSE FALSE

\* inlineAlternatives: the loop over i; `i--` re-examines the first spliced one
RECURSIVE inlineAlternativesLoop(_, _, _)
inlineAlternativesLoop(alternatives, i, inlined) ==
    IF i > Len(alternatives) THEN [kids |-> alternatives, changed |-> inlined]
    ELSE LET c == alternatives[i]
         IN IF Len(c.kids) = 1 /\ c.kids[1].type = "Alternation"
            THEN inlineAlternativesLoop(
                    SubSeq(alternatives, 1, i - 1) \o c.kids[1].kids
                        \o SubSeq(alternatives, i + 1, Len(alternatives)),
                    i, TRUE)
            ELSE inlineAlternativesLoop(alternatives, i + 1, inlined)

inlineAlternatives(tc, parent) ==
    Let([r \in {inlineAlternativesLoop(parent.kids, 1, FALSE)} |->
       [tc |-> tc, n |-> [parent EXCEPT !.kids = r.kids], changed |-> r.changed]])

isPlusLike(alt) ==
    Len(alt.kids) = 1 /\ alt.kids[1].type = "Quantifier" /\ alt.kids[1].min = 1

optimizeEmptyString(tc, parent) ==
    IF Len(parent.kids) >= 2 /\ \E i \in 1..Len(parent.kids) : Len(parent.kids[i].kids) = 0
    THEN LET alts == SelectSeq(parent.kids, LAMBDA c : Len(c.kids) > 0)
         IN IF Len(alts) = 0
            THEN Let([l \in {literal(tc, "Concatenation", noCharacters, <<>>, 0, 0)} |->
                    [tc |-> l.tc, n |-> [parent EXCEPT !.kids = <<l.n>>], changed |-> TRUE]])
            ELSE IF \E i \in 1..Len(alts) : canMatchEmptyString(alts[i])
            THEN [tc |-> tc, n |-> [parent EXCEPT !.kids = alts], changed |-> TRUE]
            ELSE IF \E i \in 1..Len(alts) : isPlusLike(alts[i])
            THEN Let([i \in {CHOOSE i \in 1..Len(alts) :
                              /\ isPlusLike(alts[i])
                              /\ \A j \in 1..(i - 1) : ~isPlusLike(alts[j])} |->
                    [tc |-> tc,
                     n |-> [parent EXCEPT !.kids = [alts EXCEPT ![i].kids[1].min = 0]],
                     changed |-> TRUE]])
            ELSE Let([outer \in {literal(tc, "Concatenation", noCharacters, <<>>, 0, 0)} |->
                     Let([q \in {literal(outer.tc, "Quantifier", noCharacters, alts, 0, 1)} |->
                    [tc |-> q.tc,
                     n |-> [parent EXCEPT !.kids = <<[outer.n EXCEPT !.kids = <<q.n>>]>>],
                     changed |-> TRUE]])])
    ELSE [tc |-> tc, n |-> parent, changed |-> FALSE]

\* filterMut (util) with the filter of consumeNonQuantifierLeftToRight: `kept`
\* are the elements written back so far, its last one is `quant`
RECURSIVE consumeNonQuantifier(_, _, _, _)
consumeNonQuantifier(elements, k, kept, optimized) ==
    IF k > Len(elements) THEN [kids |-> kept, changed |-> optimized]
    ELSE LET after == elements[k]
         IN IF /\ Len(kept) > 0
               /\ kept[Len(kept)].type = "Quantifier"
               /\ equalToQuantifiedElement(kept[Len(kept)], after)
            THEN consumeNonQuantifier(elements, k + 1,
                    [kept EXCEPT ![Len(kept)].min = @ + 1,
                                 ![Len(kept)].max = addBound(@, 1)],
                    TRUE)
            ELSE consumeNonQuantifier(elements, k + 1, Append(kept, after), optimized)

\* the last filterMut of letQuantifiersConsumeNeighbors
RECURSIVE mergeQuantifiers(_, _, _, _)
mergeQuantifiers(elements, k, kept, optimized) ==
    IF k > Len(elements) THEN [kids |-> kept, changed |-> optimized]
    ELSE LET after == elements[k]
         IN IF /\ Len(kept) > 0
               /\ kept[Len(kept)].type = "Quantifier"
               /\ after.type = "Quantifier"
               /\ structurallyEqualAlternatives(kept[Len(kept)].kids, after.kids)
            THEN mergeQuantifiers(elements, k + 1,
                    [kept EXCEPT ![Len(kept)].min = @ + after.min,
                                 ![Len(kept)].max = addBound(@, after.max)],
                    TRUE)
            ELSE mergeQuantifiers(elements, k + 1, Append(kept, after), optimized)

reverse(q) == [i \in 1..Len(q) |-> q[Len(q) + 1 - i]]

letQuantifiersConsumeNeighbors(elements) ==
    Let([a \in {consumeNonQuantifier(elements, 1, <<>>, FALSE)} |->
        Let([b \in {consumeNonQuantifier(reverse(a.kids), 1, <<>>, a.changed)} |->
        Let([c \in {mergeQuantifiers(reverse(b.kids), 1, <<>>, b.changed)} |->
       c])])])

onNodeWithAlternatives(tc, node) ==
    Let([a \in {inlineAlternatives(tc, node)} |->
        Let([b \in {optimizeEmptyString(a.tc, a.n)} |->
        Let([c \in {factorOutCommonPreAndSuffix(b.tc, b.n)} |->
       [tc |-> c.tc, n |-> c.n, changed |-> a.changed \/ b.changed \/ c.changed]])])])

onConcatenationLeave(tc, node) ==
    Let([a \in {inlineConcat(tc, node)} |->
        Let([b \in {letQuantifiersConsumeNeighbors(a.n.kids)} |->
       [tc |-> a.tc, n |-> [a.n EXCEPT !.kids = b.kids], changed |-> a.changed \/ b.changed]])])

onQuantifierLeave(tc, node) ==
    Let([a \in {onNodeWithAlternatives(tc, node)} |->
        Let([e \in {getSingleElement(a.n, "Quantifier")} |->
       IF /\ (a.n.min = 0 \/ a.n.min = 1)
          /\ Len(e) = 1
          /\ (e[1].min = 0 \/ e[1].min = 1)
       THEN [tc |-> a.tc,
             n |-> [a.n EXCEPT !.min = @ * e[1].min,
                               !.max = safeMultiply(@, e[1].max),
                               !.kids = e[1].kids],
             changed |-> TRUE]
       ELSE a])])

\* visitAst (ast) with the visitor of optimize: the children first and in
\* order, then the Leave callback of the node
RECURSIVE visitNode(_, _), visitKids(_, _, _, _, _)
visitKids(tc, kids, k, acc, changed) ==
    IF k > Len(kids) THEN [tc |-> tc, kids |-> acc, changed |-> changed]
    ELSE Let([v \in {visitNode(tc, kids[k])} |->
            visitKids(v.tc, kids, k + 1, Append(acc, v.n), changed \/ v.changed)])
visitNode(tc, node) ==
    IF node.type = "CharacterClass" THEN [tc |-> tc, n |-> node, changed |-> FALSE]
    ELSE Let([ks \in {visitKids(tc, node.kids, 1, <<>>, FALSE)} |->
             Let([visited \in {[node EXCEPT !.kids = ks.kids]} |->
             Let([leave \in {IF node.type = "Concatenation" THEN onConcatenationLeave(ks.tc, visited)
                      ELSE IF node.type = "Quantifier" THEN onQuantifierLeave(ks.tc, visited)
                      ELSE onNodeWithAlternatives(ks.tc, visited)} |->
            [tc |-> leave.tc, n |-> leave.n, changed |-> ks.changed \/ leave.changed]])])])

\* mutant: a pass rewrites nothing
optimize_nothing(tc, expr) == [tc |-> tc, n |-> expr, changed |-> FALSE]

optimize(tc, expr) == visitNode(tc, expr)

\* ---- the whole conversion as one function; returns [err, tc, n]
stateElimination(iter, maxAstNodes) ==
    Let([tc \in {TransitionCreator(maxAstNodes)} |->
        Let([nodeList \in {createNodeList(iter, tc)} |->
       IF nodeList.tc.failed
       THEN [err |-> "TooManyNodes", tc |-> nodeList.tc, n |-> Node("undefined", 0, noCharacters, <<>>, 0, 0)]
       ELSE IF nodeList.isNull
       THEN Let([e \in {tc_emptyExpression(nodeList.tc)} |->
               [err |-> IF e.tc.failed THEN "TooManyNodes" ELSE "none", tc |-> e.tc, n |-> e.n]])
       ELSE Let([es \in {eliminateStates(nodeList.g, nodeList.tc)} |->
               IF es.tc.failed
               THEN [err |-> "TooManyNodes", tc |-> es.tc, n |-> Node("undefined", 0, noCharacters, <<>>, 0, 0)]
               ELSE Let([r \in {finishElimination(es)} |->
                       [err |-> IF r.err # "none" THEN r.err
                                ELSE IF r.tc.failed THEN "TooManyNodes" ELSE "none",
                        tc |-> r.tc, n |-> r.n]])])])])

\* `while (optimizationPasses > 0 && optimize(expression)) optimizationPasses--`
RECURSIVE optimizeLoop(_, _, _)
optimizeLoop(tc, expr, optimizationPasses) ==
    IF optimizationPasses = Infinity \/ optimizationPasses > 0
    THEN Let([r \in {optimize(tc, expr)} |->
            IF r.changed
            THEN optimizeLoop(r.tc, r.n,
                              IF optimizationPasses = Infinity THEN Infinity
                              ELSE optimizationPasses - 1)
            ELSE [tc |-> r.tc, n |-> r.n]])
    ELSE [tc |-> tc, n |-> expr]

faToRegex(iter, opts) ==
    Let([e \in {stateElimination(iter, opts.maximumNodes)} |->
       IF e.err # "none" THEN e
       ELSE Let([o \in {optimizeLoop(e.tc, e.n, opts.maximumOptimizationPasses)} |->
               [err |-> "none", tc |-> o.tc, n |-> o.n]])])

\* ================================================ the CharSet operations as actions
\* the ranges of the set of characters S, in normal form
RECURSIVE RangesOf(_)
RangesOf(S) ==
    IF S = {} THEN <<>>
    ELSE LET lo == CHOOSE x \in S : \A y \in S : x <= y
             hi == CHOOSE h \in S : /\ (lo..h) \subseteq S
                                    /\ (h + 1) \notin S
                                    /\ h >= lo
         IN <<mkRange(lo, hi)>> \o RangesOf(S \ (lo..hi))

NormalSets(maximum) == {CharSet(maximum, RangesOf(S)) : S \in SUBSET (0..maximum)}

\* ranges as a caller may supply them: the valid ones and ones that break each
\* of the three conditions of checkRange
ValidRanges(maximum) == {mkRange(lo, hi) : lo \in 0..maximum, hi \in 0..maximum} \ 
                        {mkRange(lo, hi) : lo \in 1..maximum, hi \in 0..(maximum - 1)}
ForeignRanges(maximum) ==
    {r \in {mkRange(lo, hi) : lo \in (0 - 1)..maximum, hi \in 0..(maximum + 1)} :
        \/ (0 <= r.min /\ r.min <= r.max /\ r.max <= maximum)
        \/ r \in {mkRange(0 - 1, 0), mkRange(1, 0), mkRange(maximum, maximum + 1)}}

SeqsUpTo(S, n) == UNION {[1..k -> S] : k \in 0..n}

noArg == argIter(<<>>)

States == 1..NumStates

\* ---- the options: maximumNodes and maximumOptimizationPasses
DefaultMaximumNodes == 10000
DefaultOptions == [maximumNodes |-> DefaultMaximumNodes, maximumOptimizationPasses |-> Infinity]

noNode == Node("undefined", 0, noCharacters, <<>>, 0, 0)
noEngine == [g |-> NodeList(Nodes), tc |-> TransitionCreator(0), remaining |-> <<>>]

\* no NodeList is under test: the one `new NodeList()` makes, and no call
noCall == [op |-> "none", from |-> 0, to |-> 0, err |-> "none", found |-> FALSE, count |-> 0]
NlIdle ==
    /\ nlist = NodeList({initialNode})
    /\ nlCall = noCall

FaIdle ==
    /\ nfa = [final |-> {}, out |-> [s \in States |-> <<>>]]
    /\ options = DefaultOptions
    /\ phase = "idle"
    /\ engine = noEngine
    /\ pending = <<>>
    /\ expression = noNode
    /\ passes = 0
    /\ error = "none"
    /\ toProcessNext = <<>>

CsIdle ==
    /\ csOp = "idle"
    /\ csRes = Ok(0)
    /\ csExtra = noArg
    /\ csThis = CharSet_empty(0)
    /\ csOther = noArg

CsInit ==
    /\ FaIdle /\ NlIdle
    /\ csOp = "none"
    /\ csRes = Ok(0)
    /\ csExtra = noArg
    /\ \/ /\ csThis \in NormalSets(CsMax)
          /\ csOther \in {argSet(s) : s \in NormalSets(CsMax) \cup NormalSets(CsMax - 1)}
       \/ /\ csThis \in NormalSets(CsMax)
          /\ csOther \in {argRange(r) : r \in {x \in ForeignRanges(CsMax) : checkRange(csThis, x)}}
       \/ /\ csThis \in NormalSets(FMax)
          /\ csOther \in {argIter(q) : q \in SeqsUpTo(ForeignRanges(FMax), MaxForeign)}

\* a second argument for the variadic union
ExtraArgs(this) ==
    {argSet(CharSet_empty(this.maximum)), argSet(CharSet_all(this.maximum)),
     argSet(CharSet(this.maximum, <<mkRange(1, 1)>>)),
     argSet(CharSet_all(this.maximum - 1)),
     argIter(<<mkRange(1, 1), mkRange(0, 0)>>)}

Called(op, res) ==
    /\ csOp = "none"
    /\ csOp' = op
    /\ csRes' = res
    /\ UNCHANGED <<csThis, csOther>>
    /\ UNCHANGED <<faVars, nlVars>>

Empty == Called("empty", Ok(CharSet_empty(csThis.maximum))) /\ UNCHANGED csExtra
All == Called("all", Ok(CharSet_all(csThis.maximum))) /\ UNCHANGED csExtra
Negate == Called("negate", Ok(CharSet_negate(csThis))) /\ UNCHANGED csExtra
Union ==
    /\ csOther.kind # "CharRange"
    /\ Called("union", CharSet_union(csThis, <<csOther>>))
    /\ UNCHANGED csExtra
UnionVariadic ==
    /\ csOther.kind # "CharRange"
    /\ \E extra \in ExtraArgs(csThis) :
          /\ csExtra' = extra
          /\ Called("unionVariadic", CharSet_union(csThis, <<csOther, extra>>))
Intersect ==
    /\ csOther.kind # "CharRange"
    /\ Called("intersect", CharSet_intersect(csThis, csOther))
    /\ UNCHANGED csExtra
Without ==
    /\ csOther.kind # "CharRange"
    /\ Called("without", CharSet_without(csThis, csOther))
    /\ UNCHANGED csExtra
\* has(character): the character asked for is kept in csExtra
Has ==
    \E character \in (0 - 1)..(csThis.maximum + 1) :
        /\ csExtra' = argRange(mkRange(character, character))
        /\ Called("has", Ok(CharSet_has(csThis, character)))
IsSupersetOf ==
    /\ csOther.kind # "Iterable"
    /\ Called("isSupersetOf", CharSet_isSupersetOf(csThis, csOther))
    /\ UNCHANGED csExtra
IsSubsetOf ==
    /\ csOther.kind # "Iterable"
    /\ Called("isSubsetOf", CharSet_isSubsetOf(csThis, csOther))
    /\ UNCHANGED csExtra
IsDisjointWith ==
    /\ csOther.kind # "Iterable"
    /\ Called("isDisjointWith", CharSet_isDisjointWith(csThis, csOther))
    /\ UNCHANGED csExtra
CommonCharacter ==
    /\ csOther.kind # "Iterable"
    /\ Called("commonCharacter", CharSet_commonCharacter(csThis, csOther))
    /\ UNCHANGED csExtra

CsNext ==
    \/ Empty \/ All \/ Negate \/ Union \/ UnionVariadic \/ Intersect \/ Without
    \/ Has \/ IsSupersetOf \/ IsSubsetOf \/ IsDisjointWith \/ CommonCharacter

SpecCharSet == CsInit /\ [][CsNext]_vars

\* ============================================ faToRegex as a state machine
\* ---- the input: an FA iterator.  nfa.out[s] is the sequence getOut(s) yields,
\* entries [to, cs] with at most one entry per target; nfa.final is isFinal.
Labels == NormalSets(FaMax)

Perms(S) == {q \in [1..Cardinality(S) -> S] : \A i, j \in 1..Cardinality(S) : q[i] = q[j] => i = j}

Targets(E, s) == {e[2] : e \in {x \in E : x[1] = s}}

\* the states a DFS from state 1 visits along the edges E
RECURSIVE ReachFrom(_, _)
ReachFrom(R, E) ==
    LET more == R \cup {e[2] : e \in {x \in E : x[1] \in R}}
    IN IF more = R THEN R ELSE ReachFrom(more, E)

\* the edge sets of at most MaxEdges edges all of whose sources are reachable
EdgeSets(most) ==
    {E \in SUBSET (States \X States) :
        /\ Cardinality(E) <= most
        /\ \A e \in E : e[1] \in ReachFrom({1}, E)}

RECURSIVE Orders(_, _)
Orders(E, n) ==
    IF n = 0 THEN {<<>>}
    ELSE {Append(o, q) : o \in Orders(E, n - 1), q \in Perms(Targets(E, n))}

\* the FA with the edges E labelled by lab, enumerated in the orders ord
MakeFA(F, E, lab, ord) ==
    [final |-> F,
     out |-> [s \in States |->
                [i \in 1..Len(ord[s]) |-> [to |-> ord[s][i], cs |-> lab[<<s, ord[s][i]>>]]]]]

FaStart(f, opts) ==
    /\ nfa = f
    /\ options = opts
    /\ phase = "start"
    /\ engine = [noEngine EXCEPT !.tc = TransitionCreator(opts.maximumNodes)]
    /\ pending = <<>>
    /\ expression = noNode
    /\ passes = opts.maximumOptimizationPasses
    /\ error = "none"
    /\ toProcessNext = <<>>

SomeFA(opts, most) ==
    \E E \in EdgeSets(most) : \E F \in SUBSET States :
        \E lab \in [E -> Labels] : \E ord \in Orders(E, NumStates) :
            FaStart(MakeFA(F, E, lab, ord), opts)

Init == CsIdle /\ NlIdle /\ SomeFA(DefaultOptions, MaxEdges)

\* a throw leaves faToRegex: the conversion is over and returns nothing
Throw(e, tc) ==
    /\ phase' = "failed"
    /\ error' = e
    /\ engine' = [engine EXCEPT !.tc = tc]
    /\ UNCHANGED <<pending, expression, passes>>

\* stateElimination: new TransitionCreator, createNodeList
CreateNodeList ==
    /\ phase = "start"
    /\ LET r == createNodeList(nfa, engine.tc)
       IN IF r.tc.failed THEN Throw("TooManyNodes", r.tc)
          ELSE /\ engine' = [g |-> r.g, tc |-> r.tc, remaining |-> <<>>]
               /\ phase' = IF r.isNull THEN "empty" ELSE "built"
               /\ UNCHANGED <<pending, expression, passes, error>>
    /\ UNCHANGED <<nfa, options>> /\ UNCHANGED <<csVars, nlVars, toProcessNext>>

\* stateElimination: `if (nodeList == null) return tc.emptyExpression()`
EmptyLanguage ==
    /\ phase = "empty"
    /\ LET e == tc_emptyExpression(engine.tc)
       IN IF e.tc.failed THEN Throw("TooManyNodes", e.tc)
          ELSE /\ engine' = [engine EXCEPT !.tc = e.tc]
               /\ expression' = e.n
               /\ phase' = "optimize"
               /\ UNCHANGED <<pending, passes, error>>
    /\ UNCHANGED <<nfa, options>> /\ UNCHANGED <<csVars, nlVars, toProcessNext>>

\* eliminateStates: remainingStates is collected; all of it is to be processed
StartElimination ==
    /\ phase = "built"
    /\ engine' = [engine EXCEPT !.remaining = remainingOf(engine.g)]
    /\ pending' = remainingOf(engine.g)
    /\ phase' = "trivial"
    /\ UNCHANGED <<nfa, options, expression, passes, error>> /\ UNCHANGED <<csVars, nlVars, toProcessNext>>

\* eliminateStates: a call of trivialOperations
TrivialOperations ==
    /\ phase = "trivial"
    /\ LET r == trivialOperations(engine, pending)
       IN IF r.tc.failed THEN Throw("TooManyNodes", r.tc)
          ELSE /\ engine' = r
               /\ pending' = <<>>
               /\ phase' = IF Len(r.remaining) > 0 THEN "pick" ELSE "finish"
               /\ UNCHANGED <<expression, passes, error>>
    /\ UNCHANGED <<nfa, options>> /\ UNCHANGED <<csVars, nlVars, toProcessNext>>

\* eliminateStates: minOf and removeState
RemoveState ==
    /\ phase = "pick"
    /\ LET r == removeState(engine, minOf(engine.g, engine.remaining))
       IN IF r.es.tc.failed THEN Throw("TooManyNodes", r.es.tc)
          ELSE /\ engine' = r.es
               /\ pending' = r.affected
               /\ phase' = "trivial"
               /\ UNCHANGED <<expression, passes, error>>
    /\ UNCHANGED <<nfa, options>> /\ UNCHANGED <<csVars, nlVars, toProcessNext>>

\* stateElimination: the check of the final state and the Expression
FinishElimination ==
    /\ phase = "finish"
    /\ LET r == finishElimination(engine)
       IN IF r.err # "none" THEN Throw(r.err, r.tc)
          ELSE IF r.tc.failed THEN Throw("TooManyNodes", r.tc)
          ELSE /\ engine' = [engine EXCEPT !.tc = r.tc]
               /\ expression' = r.n
               /\ phase' = "optimize"
               /\ UNCHANGED <<pending, passes, error>>
    /\ UNCHANGED <<nfa, options>> /\ UNCHANGED <<csVars, nlVars, toProcessNext>>

\* (a loop that forgets `optimizationPasses--`)
OptimizePass_noCountdown ==
    /\ phase = "optimize"
    /\ (passes = Infinity \/ passes > 0)
    /\ LET r == optimize(engine.tc, expression)
       IN /\ engine' = [engine EXCEPT !.tc = r.tc]
          /\ expression' = r.n
          /\ passes' = passes
          /\ phase' = IF r.changed THEN "optimize" ELSE "done"
    /\ UNCHANGED <<nfa, options, pending, error>> /\ UNCHANGED <<csVars, nlVars, toProcessNext>>

\* faToRegex: one turn of `while (optimizationPasses > 0 && optimize(expression))`
OptimizePass ==
    /\ phase = "optimize"
    /\ (passes = Infinity \/ passes > 0)
    /\ LET r == optimize(engine.tc, expression)
       IN /\ engine' = [engine EXCEPT !.tc = r.tc]
          /\ expression' = r.n
          /\ passes' = IF r.changed /\ passes # Infinity THEN passes - 1 ELSE passes
          /\ phase' = IF r.changed THEN "optimize" ELSE "done"
    /\ UNCHANGED <<nfa, options, pending, error>> /\ UNCHANGED <<csVars, nlVars, toProcessNext>>

\* faToRegex: the loop ends because no pass is left
OutOfPasses ==
    /\ phase = "optimize"
    /\ passes = 0
    /\ phase' = "done"
    /\ UNCHANGED <<nfa, options, engine, pending, expression, passes, error>>
    /\ UNCHANGED <<csVars, nlVars, toProcessNext>>

Convert ==
    \/ CreateNodeList \/ EmptyLanguage \/ StartElimination \/ TrivialOperations
    \/ RemoveState \/ FinishElimination \/ OptimizePass

Next == Convert

Spec == Init /\ [][Next]_vars
\* The elimination is a loop of one sequential call, which does not stay in
\* one of its phases for ever: StartElimination, TrivialOperations and
\* RemoveState are guarded by the phase alone, and each of them leaves it.
\* The FAs are those over the alphabet of one character.
FairInit ==
    /\ CsIdle /\ NlIdle
    /\ \E E \in EdgeSets(MaxEdges) : \E F \in SUBSET States :
          \E lab \in [E -> NormalSets(0)] : \E ord \in Orders(E, NumStates) :
              FaStart(MakeFA(F, E, lab, ord), DefaultOptions)
Proceed ==
    /\ phase \in {"built", "trivial", "pick"}
    /\ phase' \in {"trivial", "pick", "finish", "failed"}
    /\ phase' # phase
SpecFair == FairInit /\ [][Next]_vars /\ WF_phase(Proceed)

\* the conversions with a small budget of nodes and with or without the passes
\* of the simplifier, for the FAs of fewer edges
BudgetOptions ==
    {[maximumNodes |-> m, maximumOptimizationPasses |-> o] :
        m \in 1..MaxNodes, o \in {0, Infinity}}
BudgetInit == CsIdle /\ NlIdle /\ \E opts \in BudgetOptions : SomeFA(opts, MaxEdges - 1)
BudgetNext == Convert \/ OutOfPasses
SpecBudget == BudgetInit /\ [][BudgetNext]_vars

\* the conversions with a finite maximumOptimizationPasses, for the FAs over
\* the alphabet of one character
PassOptions ==
    {[maximumNodes |-> DefaultMaximumNodes, maximumOptimizationPasses |-> k] :
        k \in 0..MaxPasses}
PassesInit ==
    /\ CsIdle /\ NlIdle
    /\ \E opts \in PassOptions : \E E \in EdgeSets(MaxEdges) : \E F \in SUBSET States :
          \E lab \in [E -> NormalSets(0)] : \E ord \in Orders(E, NumStates) :
              FaStart(MakeFA(F, E, lab, ord), opts)
SpecPasses == PassesInit /\ [][BudgetNext]_vars

\* ---- The same conversion, with trivialOperations taken one call of its
\* local functions at a time: `pending` is what is left of toProcess in the
\* running forEach, toProcessNext the newToProcess Set the callbacks fill.
\* the callback of toProcess.forEach, up to removeTrivialReflexiveTransition
ReflexiveStep ==
    /\ phase = "trivial"
    /\ Len(pending) > 0
    /\ IF Head(pending) \notin Range(engine.remaining)
       THEN /\ pending' = Tail(pending)
            /\ UNCHANGED <<phase, engine, expression, passes, error>>
       ELSE LET r == removeTrivialReflexiveTransition(engine, Head(pending))
            IN IF r.tc.failed THEN Throw("TooManyNodes", r.tc)
               ELSE /\ engine' = r
                    /\ phase' = "concat"
                    /\ UNCHANGED <<pending, expression, passes, error>>
    /\ UNCHANGED <<nfa, options, toProcessNext>> /\ UNCHANGED <<csVars, nlVars>>

\* the rest of the callback: removeTrivialConcat and the affected states
ConcatStep ==
    /\ phase = "concat"
    /\ LET c == removeTrivialConcat(engine, Head(pending))
       IN IF c.es.tc.failed
          THEN Throw("TooManyNodes", c.es.tc) /\ UNCHANGED toProcessNext
          ELSE /\ engine' = c.es
               /\ toProcessNext' = setAddAll(toProcessNext, c.affected)
               /\ pending' = Tail(pending)
               /\ phase' = "trivial"
               /\ UNCHANGED <<expression, passes, error>>
    /\ UNCHANGED <<nfa, options>> /\ UNCHANGED <<csVars, nlVars>>

\* `toProcess = newToProcess` and the test of `while (toProcess.size > 0)`
NextRound ==
    /\ phase = "trivial"
    /\ Len(pending) = 0
    /\ IF Len(toProcessNext) > 0
       THEN /\ pending' = toProcessNext
            /\ toProcessNext' = <<>>
            /\ UNCHANGED phase
       ELSE /\ phase' = IF Len(engine.remaining) > 0 THEN "pick" ELSE "finish"
            /\ UNCHANGED <<pending, toProcessNext>>
    /\ UNCHANGED <<nfa, options, engine, expression, passes, error>>
    /\ UNCHANGED <<csVars, nlVars>>

StepNext ==
    \/ CreateNodeList \/ EmptyLanguage \/ StartElimination
    \/ ReflexiveStep \/ ConcatStep \/ NextRound
    \/ RemoveState \/ FinishElimination \/ OptimizePass

SpecSteps == Init /\ [][StepNext]_vars

\* ---- Dense FAs: all of the NumStates * NumStates edges but at most
\* MaxMissing, one label on the self-loops and one on the other edges, each
\* state yielding its edges by ascending target.
DenseEdgeSets ==
    {E \in SUBSET (States \X States) :
        Cardinality(E) >= NumStates * NumStates - MaxMissing}

Ascending(S) == CHOOSE q \in Perms(S) : \A i, j \in 1..Cardinality(S) : i < j => q[i] < q[j]

DenseInit ==
    /\ CsIdle /\ NlIdle
    /\ \E E \in DenseEdgeSets : \E F \in SUBSET States :
          \E a \in Labels : \E b \in Labels \ {CharSet_empty(FaMax)} :
              FaStart(MakeFA(F, E, [e \in E |-> IF e[1] = e[2] THEN a ELSE b],
                             [st \in States |-> Ascending(Targets(E, st))]),
                      DefaultOptions)

SpecDense == DenseInit /\ [][StepNext]_vars

\* ============================================ NodeList as a state machine
\* The methods of one NodeList are called one by one, with any nodes created
\* so far and either of two transitions; a call that throws is caught by the
\* caller, who goes on calling.
NlTransitions ==
    {tc_emptyConcat(TransitionCreator(DefaultMaximumNodes)).n,
     tc_char(TransitionCreator(DefaultMaximumNodes), CharSet_all(0)).n}

NlInit ==
    /\ CsIdle /\ FaIdle
    /\ nlist = NodeList({initialNode})
    /\ nlCall = [noCall EXCEPT !.op = "new"]

NlCalled(op, from, to, err, found) ==
    /\ nlCall.op # "none"
    /\ nlCall.count < MaxCalls
    /\ nlCall' = [op |-> op, from |-> from, to |-> to, err |-> err, found |-> found,
                  count |-> nlCall.count + 1]
    /\ UNCHANGED <<csVars, faVars>>

CreateNode ==
    /\ Cardinality(DOMAIN nlist.out) < NlNodes
    /\ nlist' = createNode(nlist, Cardinality(DOMAIN nlist.out))
    /\ NlCalled("createNode", 0, 0, "none", FALSE)

LinkNodes ==
    \E from \in DOMAIN nlist.out : \E to \in DOMAIN nlist.out : \E t \in NlTransitions :
        LET r == linkNodes(nlist, from, to, t)
        IN /\ nlist' = [r EXCEPT !.err = "none"]
           /\ NlCalled("linkNodes", from, to, r.err, FALSE)

UnlinkNodes ==
    \E from \in DOMAIN nlist.out : \E to \in DOMAIN nlist.out :
        LET r == unlinkNodes(nlist, from, to)
        IN /\ nlist' = r.g
           /\ NlCalled("unlinkNodes", from, to, "none", r.found)

RelinkNodes ==
    \E from \in DOMAIN nlist.out : \E to \in DOMAIN nlist.out : \E t \in NlTransitions :
        LET r == relinkNodes(nlist, from, to, t)
        IN /\ nlist' = [r EXCEPT !.err = "none"]
           /\ NlCalled("relinkNodes", from, to, r.err, FALSE)

\* linkWithUnion of eliminateStates, on this NodeList
LinkWithUnion ==
    \E from \in DOMAIN nlist.out : \E to \in DOMAIN nlist.out : \E t \in NlTransitions :
        LET r == linkWithUnion([g |-> nlist, tc |-> TransitionCreator(DefaultMaximumNodes),
                                remaining |-> <<>>], from, to, t)
        IN /\ nlist' = [r.g EXCEPT !.err = "none"]
           /\ NlCalled("linkWithUnion", from, to, r.g.err, FALSE)

NlNext == CreateNode \/ LinkNodes \/ UnlinkNodes \/ RelinkNodes \/ LinkWithUnion

SpecNodeList == NlInit /\ [][NlNext]_vars

\* ---- the reference semantics of the two sides
Alphabet == 0..FaMax
Words == UNION {[1..k -> Alphabet] : k \in 0..MaxWordLen}

\* the states the FA can be in after reading w from state 1
RECURSIVE Run(_, _)
Run(f, w) ==
    IF w = <<>> THEN {1}
    ELSE LET before == Run(f, SubSeq(w, 1, Len(w) - 1))
             c == w[Len(w)]
         IN {e.to : e \in {x \in UNION {Range(f.out[s]) : s \in before} :
                              c \in Chars(x.cs.ranges)}}
Accepts(f, w) == Run(f, w) \cap f.final # {}

\* the words of length <= MaxWordLen a node matches
RECURSIVE Lang(_), LangSeq(_, _), LangPow(_, _, _, _, _)
LangAlt(kids) == UNION {Lang(kids[i]) : i \in 1..Len(kids)}
LangSeq(kids, k) ==
    IF k > Len(kids) THEN {<<>>}
    ELSE LET first == Lang(kids[k])
             rest == LangSeq(kids, k + 1)
         IN {w \in Words : \E i \in 0..Len(w) :
                /\ SubSeq(w, 1, i) \in first
                /\ SubSeq(w, i + 1, Len(w)) \in rest}
\* the union of the powers body^k for k in lo..hi, power being body^k
LangPow(body, power, k, lo, hi) ==
    IF k > hi THEN {}
    ELSE (IF k >= lo THEN power ELSE {})
         \cup LangPow(body,
                      {w \in Words : \E i \in 0..Len(w) :
                          /\ SubSeq(w, 1, i) \in power
                          /\ SubSeq(w, i + 1, Len(w)) \in body},
                      k + 1, lo, hi)
Lang(node) ==
    IF node.type = "CharacterClass" THEN {<<c>> : c \in Chars(node.characters.ranges)}
    ELSE IF node.type = "Concatenation" THEN LangSeq(node.kids, 1)
    ELSE IF node.type = "Quantifier"
    THEN LET top == Max2(node.min, MaxWordLen)
         IN LangPow(LangAlt(node.kids), {<<>>}, 0, node.min,
                    IF node.max = Infinity THEN top ELSE Min2(node.max, top))
    ELSE LangAlt(node.kids)


\* ------------------------------------------------------- claims on the CharSets
ReturnsCharSet == {"empty", "all", "negate", "union", "unionVariadic", "intersect", "without"}
SameDomainSet == csOther.kind = "CharSet" /\ csOther.maximum = csThis.maximum

\* C2: every CharSet returned by empty, all, negate, union (binary and variadic),
\* intersect and without keeps the receiver's maximum and has its ranges sorted,
\* disjoint, non-adjacent and inside [0, maximum].
C2_NormalForm ==
    (csOp \in ReturnsCharSet /\ csRes.err = "none") =>
        /\ csRes.val.maximum = csThis.maximum
        /\ IsNormalForm(csRes.val.ranges, csRes.val.maximum)
\* a variadic union of unsorted foreign ranges that returns two ranges
C2_Witness ==
    /\ csOp = "unionVariadic" /\ csRes.err = "none"
    /\ csOther.kind = "Iterable" /\ Len(csOther.ranges) = 2
    /\ csOther.ranges[1].min > csOther.ranges[2].min
    /\ Len(csRes.val.ranges) = 2

\* C3: for CharSets of equal maximum, union, intersect and negate agree with the
\* set operations on membership, for every character of [0, maximum].
C3_Membership ==
    LET U == 0..csThis.maximum
        A == Chars(csThis.ranges)
        B == Chars(csOther.ranges)
    IN /\ (csOp = "union" /\ SameDomainSet) =>
            (csRes.err = "none" /\ \A c \in U :
                (c \in Chars(csRes.val.ranges)) <=> (c \in A \/ c \in B))
       /\ (csOp = "intersect" /\ SameDomainSet) =>
            (csRes.err = "none" /\ \A c \in U :
                (c \in Chars(csRes.val.ranges)) <=> (c \in A /\ c \in B))
       /\ (csOp = "negate") =>
            (csRes.err = "none" /\ \A c \in U :
                (c \in Chars(csRes.val.ranges)) <=> (c \notin A))
\* a negation whose operand ends below maximum and has an inner gap
C3_Witness ==
    /\ csOp = "negate"
    /\ Len(csThis.ranges) = 2
    /\ csThis.ranges[2].max < csThis.maximum
    /\ Len(csRes.val.ranges) >= 2

\* C4: for CharSets a, b of equal maximum, a.without(b) equals a.intersect(b.negate()).
C4_WithoutIsIntersectNegate ==
    (csOp = "without" /\ SameDomainSet) =>
        /\ csRes.err = "none"
        /\ LET nb == CharSet_negate(CharSet(csOther.maximum, csOther.ranges))
               viaIntersect == CharSet_intersect(csThis, argSet(nb))
           IN viaIntersect.err = "none" /\ CharSet_equals(csRes.val, viaIntersect.val)
\* one range of a split twice: its right fragment met a following range of b
C4_Witness ==
    /\ csOp = "without" /\ SameDomainSet /\ csRes.err = "none"
    /\ Len(csThis.ranges) = 1
    /\ Len(csOther.ranges) = 2
    /\ Len(csRes.val.ranges) = 3

\* C5: every binary operation given a CharSet of another maximum fails with
\* DomainMismatch (stated as the claim has it; isSupersetOf, isSubsetOf,
\* isDisjointWith and commonCharacter never call checkCompatibility).
C5_DomainMismatch ==
    (/\ csOp \in {"union", "intersect", "without", "isSupersetOf", "isSubsetOf",
                  "isDisjointWith", "commonCharacter"}
     /\ csOther.kind = "CharSet"
     /\ csOther.maximum # csThis.maximum) => csRes.err = "DomainMismatch"

\* ------------------------------------------------------ claims on faToRegex
Returned == phase = "done"

\* C1: for every FA of the family and E = faToRegex(F) with default options,
\* every word w over [0, maximum] of length at most MaxWordLen is accepted by F
\* if and only if it matches E.
C1_SameLanguage ==
    Returned => {w \in Words : Accepts(nfa, w)} = Lang(expression)

\* a conversion returned for an FA with a cycle, two branches and a result that
\* still holds a star and an alternation of two alternatives
RECURSIVE SubNodes(_)
SubNodes(node) == {node} \cup UNION {SubNodes(node.kids[i]) : i \in 1..Len(node.kids)}
IsStar(n) == n.type = "Quantifier" /\ n.max = Infinity
IsChoice(n) == n.type \in {"Alternation", "Expression"} /\ Len(n.kids) >= 2
C1_Witness ==
    /\ Returned
    /\ \E n \in SubNodes(expression) : IsStar(n)
    /\ \E n \in SubNodes(expression) : IsChoice(n)
    /\ \E w \in Words : Len(w) = MaxWordLen /\ Accepts(nfa, w)
    /\ \E w \in Words : ~Accepts(nfa, w)

\* the out-edges of node n as the builder linked them, in the order of linking
\* (the edge to the temporary final state is no edge of the FA)
BuiltOut(n) == SelectSeq(engine.g.out[n], LAMBDA e : e.k # tempFinal)
EmptyLabel(e) == isEmpty(e.v.characters)

\* C9 (as the code has it): when the graph builder orders the out-edges of a
\* state, every edge labelled with a non-empty CharSet is placed before every
\* edge labelled with an empty CharSet.
C9_NonEmptyFirst ==
    phase = "built" =>
        \A n \in Nodes : \A i, j \in 1..Len(BuiltOut(n)) :
            (~EmptyLabel(BuiltOut(n)[i]) /\ EmptyLabel(BuiltOut(n)[j])) => i < j

\* a built graph where the iterator yielded an empty CharSet first and a
\* non-empty one after it, and both edges are in the graph
C9_Witness ==
    /\ phase = "built"
    /\ Len(nfa.out[1]) >= 2
    /\ isEmpty(nfa.out[1][1].cs)
    /\ ~isEmpty(nfa.out[1][2].cs)
    /\ \E i, j \in 1..Len(BuiltOut(tempInitial)) :
           /\ ~EmptyLabel(BuiltOut(tempInitial)[i])
           /\ EmptyLabel(BuiltOut(tempInitial)[j])

\* C9 (as stated): every edge labelled with an empty CharSet is placed before
\* every edge labelled with a non-empty CharSet.
C9_EmptyFirst ==
    phase = "built" =>
        \A n \in Nodes : \A i, j \in 1..Len(BuiltOut(n)) :
            (EmptyLabel(BuiltOut(n)[i]) /\ ~EmptyLabel(BuiltOut(n)[j])) => i < j

\* the states of the FA reachable from its initial state along its edges
RECURSIVE ReachableStates(_, _)
ReachableStates(f, R) ==
    LET more == R \cup UNION {{e.to : e \in Range(f.out[s])} : s \in R}
    IN IF more = R THEN R ELSE ReachableStates(f, more)
NoReachableFinal == ReachableStates(nfa, {1}) \cap nfa.final = {}

\* C10: if no final state is reachable from the initial state of the FA,
\* faToRegex (default options) returns an Expression with zero alternatives
\* and runs no state elimination.
C10_EmptyLanguage ==
    NoReachableFinal =>
        /\ phase \in {"start", "empty", "optimize", "done"}
        /\ engine.remaining = <<>> /\ pending = <<>>
        /\ phase \in {"optimize", "done"} =>
               /\ expression.type = "Expression"
               /\ expression.kids = <<>>
        /\ faToRegex(nfa, options).err = "none"
        /\ faToRegex(nfa, options).n.type = "Expression"
        /\ faToRegex(nfa, options).n.kids = <<>>

\* a conversion returned for an FA that has edges and a final state, none of
\* the final states being reachable
C10_Witness ==
    /\ Returned
    /\ NoReachableFinal
    /\ nfa.final # {}
    /\ Len(nfa.out[1]) >= 2
    /\ expression.type = "Expression" /\ expression.kids = <<>>

\* an AST without the identities of its node objects
RECURSIVE Shape(_)
Shape(node) == [node EXCEPT !.id = 0, !.kids = [i \in 1..Len(node.kids) |-> Shape(node.kids[i])]]

\* the iterators that present the FA f with other orders of enumeration
PermsOfSeq(q) == {[i \in 1..Len(q) |-> q[p[i]]] : p \in Perms(1..Len(q))}
RECURSIVE OutOrders(_, _)
OutOrders(f, n) ==
    IF n = 0 THEN {<<>>}
    ELSE {Append(o, q) : o \in OutOrders(f, n - 1), q \in PermsOfSeq(f.out[n])}
Reorderings(f) == {[final |-> f.final, out |-> o] : o \in OutOrders(f, NumStates)}

\* C8: two FA iterators that present the same states, final predicate and
\* labelled edges, but enumerate the out-edges of a state in different orders,
\* yield structurally equal ASTs.
C8_OrderIndependent ==
    Returned =>
        \A f2 \in Reorderings(nfa) :
            /\ faToRegex(f2, options).err = "none"
            /\ Shape(faToRegex(f2, options).n) = Shape(expression)

\* no state of the FA has two out-edges with equal CharSets
NoEqualLabels ==
    \A s \in States : \A i, j \in 1..Len(nfa.out[s]) :
        nfa.out[s][i].cs = nfa.out[s][j].cs => i = j

\* C8, for the FAs whose out-edges of one state all carry different CharSets
C8_OrderIndependentNoTies ==
    (Returned /\ NoEqualLabels) =>
        \A f2 \in Reorderings(nfa) :
            /\ faToRegex(f2, options).err = "none"
            /\ Shape(faToRegex(f2, options).n) = Shape(expression)

\* the number of node objects of an AST
RECURSIVE NodeCount(_)
RECURSIVE SumCounts(_, _)
SumCounts(kids, k) == IF k > Len(kids) THEN 0 ELSE NodeCount(kids[k]) + SumCounts(kids, k + 1)
NodeCount(node) == 1 + SumCounts(node.kids, 1)

\* C6: no successful conversion allocates more than maximumNodes AST nodes,
\* counting every node object created during faToRegex (by the factory, by the
\* elimination combinators and by the simplifier rewrites).
C6_AllocationWithinBudget ==
    Returned => engine.tc.alloc <= options.maximumNodes

\* the factory creations the conversion of the FA makes when nothing stops it
Needed == faToRegex(nfa, [options EXCEPT !.maximumNodes = DefaultMaximumNodes]).tc.counter

\* what the factory methods return on the TransitionCreator tc
FactoryResults(tc) ==
    {tc_concat(tc, <<>>), tc_emptyConcat(tc), tc_alter(tc, <<>>), tc_expression(tc, <<>>),
     tc_emptyExpression(tc), tc_char(tc, noCharacters), tc_quant(tc, <<>>, 0, 1),
     tc_quantStar(tc, <<>>), tc_quantPlus(tc, <<>>)}

C7_State ==
    LET tc == engine.tc
    IN /\ tc.failed <=> (phase = "failed" /\ error = "TooManyNodes")
       \* the failure is at the first creation that exceeds the ceiling, and
       \* nothing is returned
       /\ tc.failed => (tc.counter = tc.max + 1 /\ expression = noNode)
       /\ ~tc.failed => tc.counter <= tc.max
       \* every factory method adds one and fails exactly above the ceiling
       /\ ~tc.failed =>
              \A r \in FactoryResults(tc) :
                  /\ r.tc.counter = tc.counter + 1
                  /\ r.tc.failed <=> (tc.counter + 1 > options.maximumNodes)
       \* the conversion fails exactly when its creations exceed maximumNodes
       /\ phase = "failed" => Needed > options.maximumNodes
       /\ Returned => (tc.counter = Needed /\ Needed <= options.maximumNodes)
       \* copy creates, and counts, one node for every node of its argument
       /\ (Returned /\ Len(expression.kids) > 0) =>
              LET c == tc_copy(TransitionCreator(DefaultMaximumNodes), expression.kids[1])
              IN /\ c.tc.counter = NodeCount(expression.kids[1])
                 /\ Shape(c.n) = Shape(expression.kids[1])

\* C7: the factory counter increases by exactly one for every node created
\* through the factory, including every node created by copy, and never
\* decreases; the conversion fails with TooManyNodes at the first factory
\* creation that would make the counter exceed maximumNodes and returns no
\* Expression, while a conversion whose factory creations total exactly
\* maximumNodes does not fail.
C7_Counter ==
    /\ []C7_State
    /\ [][engine'.tc.counter >= engine.tc.counter]_vars

\* a conversion that returned with its factory creations exactly at
\* maximumNodes, some of them made by copy (an AST of several nodes)
C7_Witness ==
    /\ Returned
    /\ engine.tc.counter = options.maximumNodes
    /\ Needed = options.maximumNodes
    /\ Len(expression.kids) > 0
    /\ NodeCount(expression.kids[1]) >= 2

\* ------------------------------------------------- claims on the simplifier
\* C11: a simplification pass (one call of optimize on the result Expression)
\* never increases the number of AST nodes of the expression.
C11_PassNeverGrows ==
    [][phase = "optimize" => NodeCount(expression') <= NodeCount(expression)]_vars

\* the expression after j calls of optimize, whatever they report
RECURSIVE AfterPasses(_, _, _)
AfterPasses(tc, expr, j) ==
    IF j = 0 THEN [tc |-> tc, n |-> expr, changed |-> FALSE]
    ELSE LET r == optimize(tc, expr) IN AfterPasses(r.tc, r.n, j - 1)

C12_State ==
    LET k == options.maximumOptimizationPasses
        residual == stateElimination(nfa, options.maximumNodes)
        ran == k - passes
    IN (k # Infinity /\ phase \in {"optimize", "done"}) =>
          /\ passes \in 0..k
          /\ error = "none" /\ residual.err = "none"
          \* `ran` passes were run, each of them reported a change
          /\ expression = AfterPasses(residual.tc, residual.n, ran).n
          /\ \A j \in 0..(ran - 1) :
                 optimize(AfterPasses(residual.tc, residual.n, j).tc,
                          AfterPasses(residual.tc, residual.n, j).n).changed
          \* the loop ends when no pass is left or at a pass that changes nothing
          /\ phase = "done" => (passes = 0 \/ ~optimize(engine.tc, expression).changed)
          /\ (phase = "done" /\ k = 0) => expression = residual.n
          /\ phase = "done" => expression = faToRegex(nfa, options).n

C12_Step ==
    LET k == options.maximumOptimizationPasses
    IN (k # Infinity /\ phase = "optimize") =>
          \/ /\ passes > 0 /\ passes' = passes - 1 /\ phase' = "optimize"
          \/ /\ passes > 0 /\ passes' = passes /\ phase' = "done"
             /\ expression' = expression /\ error' = "none"
          \/ /\ passes = 0 /\ phase' = "done" /\ error' = "none"
             /\ UNCHANGED <<expression, engine, passes>>

\* C12: with maximumOptimizationPasses = k (finite), faToRegex runs at most k
\* simplifier passes, stops at the first pass that reports no change, and when
\* no pass is left returns the current AST without raising an error; with
\* k = 0 the residual expression of the elimination is returned unsimplified.
C12_BoundedPasses ==
    /\ []C12_State
    /\ [][C12_Step]_vars

\* a conversion cut short: the last allowed pass was run and one more pass
\* would still change the returned expression
C12_Witness ==
    /\ Returned
    /\ options.maximumOptimizationPasses = 1
    /\ passes = 0
    /\ optimize(engine.tc, expression).changed

\* --------------------------------------------- claims on the CharSet predicates
\* C13: for normal-form CharSets a, b of equal maximum, a.isSupersetOf(b),
\* b.without(a).isEmpty and a.union(b).equals(a) are equivalent.
C13_SupersetEquivalences ==
    (csOp = "isSupersetOf" /\ SameDomainSet) =>
        LET b == CharSet(csOther.maximum, csOther.ranges)
            difference == CharSet_without(b, argSet(csThis))
            sum == CharSet_union(csThis, <<csOther>>)
        IN /\ csRes.err = "none" /\ difference.err = "none" /\ sum.err = "none"
           /\ csRes.val <=> isEmpty(difference.val)
           /\ csRes.val <=> CharSet_equals(sum.val, csThis)
\* a proper superset: two ranges of a, each holding a range of b and more
C13_Witness ==
    /\ csOp = "isSupersetOf" /\ SameDomainSet
    /\ csRes.val = TRUE
    /\ Len(csThis.ranges) = 2 /\ Len(csOther.ranges) = 2
    /\ Chars(csThis.ranges) # Chars(csOther.ranges)

\* C14: for a normal-form CharSet a and an integer c, a.has(c) is true iff some
\* range r of a has r.min <= c <= r.max.
C14_HasIsMembership ==
    csOp = "has" =>
        /\ csRes.err = "none"
        /\ csRes.val <=> \E i \in 1..Len(csThis.ranges) :
                            /\ csThis.ranges[i].min <= csExtra.min
                            /\ csExtra.min <= csThis.ranges[i].max
\* a character lying in a gap between the second and the third range
C14_Witness ==
    /\ csOp = "has"
    /\ Len(csThis.ranges) = 3
    /\ csThis.ranges[2].max < csExtra.min
    /\ csExtra.min < csThis.ranges[3].min
    /\ csRes.val = FALSE

\* the characters of the argument of a predicate: a CharSet or one range
ArgChars(x) == IF x.kind = "CharSet" THEN Chars(x.ranges) ELSE x.min .. x.max

\* C15: a.commonCharacter(x), x a CharSet or a single range, returns a
\* character of both a and x whenever there is one and none exactly when a and
\* x share no character; isDisjointWith(x) is true exactly in the latter case.
C15_CommonCharacter ==
    LET common == Chars(csThis.ranges) \cap ArgChars(csOther)
    IN /\ csOp = "commonCharacter" =>
            /\ csRes.err = "none"
            /\ common # {} => csRes.val \in common
            /\ common = {} <=> csRes.val = undefinedChar
       /\ csOp = "isDisjointWith" =>
            /\ csRes.err = "none"
            /\ csRes.val <=> common = {}
\* a common character that is not the lower end of the range of the receiver:
\* the sweep passed a range of each side before it met the overlap
C15_Witness ==
    /\ csOp = "commonCharacter" /\ csOther.kind = "CharSet"
    /\ Len(csThis.ranges) = 2 /\ Len(csOther.ranges) = 2
    /\ csThis.ranges[1].max < csOther.ranges[1].min
    /\ csRes.val = csOther.ranges[2].min
    /\ csRes.val > csThis.ranges[2].min

\* the call was given foreign ranges one of which is not a range of [0, maximum]
InvalidForeign ==
    /\ csOp \in {"union", "unionVariadic", "intersect", "without"}
    /\ csOther.kind = "Iterable"
    /\ \E i \in 1..Len(csOther.ranges) :
          \/ csOther.ranges[i].min < 0
          \/ csOther.ranges[i].min > csOther.ranges[i].max
          \/ csOther.ranges[i].max > csThis.maximum

\* C16: union, intersect and without given foreign ranges fail with
\* RangeOutOfBounds as soon as a supplied range has min < 0, min > max or
\* max > maximum; no CharSet is produced and the receiver is unchanged.
C16_RangeOutOfBounds ==
    /\ [](InvalidForeign => csRes = Fail("RangeOutOfBounds"))
    /\ [][InvalidForeign' => csThis' = csThis]_vars
\* a without whose second foreign range ends above maximum, after a valid one
C16_Witness ==
    /\ InvalidForeign /\ csOp = "without"
    /\ Len(csThis.ranges) > 0
    /\ Len(csOther.ranges) = 2
    /\ checkRange(csThis, csOther.ranges[1])
    /\ csOther.ranges[2].max > csThis.maximum
    /\ csRes.err = "RangeOutOfBounds"

\* ------------------------------------------------ claims on the elimination
\* the single final state has exactly one in-edge, and it comes from initial
OneEdgeFromInitial(g) ==
    /\ g.finals = <<tempFinal>>
    /\ mapKeys(g.in[tempFinal]) = <<initialNode>>
    /\ mapHas(g.out[initialNode], tempFinal)

C17_State ==
    /\ error # "StateEliminationFailed"
    /\ phase = "finish" => (engine.remaining = <<>> /\ OneEdgeFromInitial(engine.g))
    /\ phase = "pick" => Len(engine.remaining) > 0

\* C17: for every graph the builder produces (some final state is reachable),
\* state elimination terminates with the interior set empty; the single final
\* state then has exactly one in-edge, from initial, and StateEliminationFailed
\* is never raised.
C17_EliminationEnds ==
    /\ []C17_State
    /\ [][phase = "pick" => Len(engine'.remaining) < Len(engine.remaining)]_vars
    /\ (phase = "built") ~> (phase = "finish")

\* the end of an elimination whose main loop had to pick a state: the trivial
\* operations alone left interior states
C17_Witness ==
    /\ phase = "finish"
    /\ LET b == createNodeList(nfa, TransitionCreator(options.maximumNodes))
           first == trivialOperations(
                        [g |-> b.g, tc |-> b.tc, remaining |-> remainingOf(b.g)],
                        remainingOf(b.g))
       IN Len(first.remaining) > 0

\* --------------------------------------------------- claims on the NodeList
\* every edge is in both maps with one transition, once per ordered pair
Mirrored(g) ==
    \A u \in DOMAIN g.out : \A v \in DOMAIN g.out :
        /\ mapHas(g.out[u], v) <=> mapHas(g.in[v], u)
        /\ mapHas(g.out[u], v) => mapGet(g.out[u], v) = mapGet(g.in[v], u)
        /\ Cardinality({i \in 1..Len(g.out[u]) : g.out[u][i].k = v}) <= 1
        /\ Cardinality({i \in 1..Len(g.in[v]) : g.in[v][i].k = u}) <= 1

\* C18: after any sequence of createNode, linkNodes, unlinkNodes and
\* relinkNodes calls, failing ones included, and so at every point of graph
\* building and elimination: v is a key of u.out iff u is a key of v.in, both
\* entries hold the same transition, and there is at most one edge per
\* ordered pair (u, v).
C18_EdgesMirrored == Mirrored(nlist) /\ Mirrored(engine.g)
\* an edge that linkWithUnion has replaced by the union with a second
\* transition, between two nodes that are also linked the other way round
C18_Witness ==
    /\ nlCall.op = "linkWithUnion" /\ nlCall.from # nlCall.to
    /\ mapHas(nlist.out[nlCall.from], nlCall.to)
    /\ mapGet(nlist.out[nlCall.from], nlCall.to).type = "Alternation"
    /\ mapHas(nlist.out[nlCall.to], nlCall.from)

C20_Step ==
    LET call == nlCall'
        linked == mapHas(nlist.out[call.from], call.to)
        untouched == nlist'.in = nlist.in /\ nlist'.out = nlist.out
    IN /\ (call.op = "linkNodes" /\ linked) => (call.err = "AlreadyLinked" /\ untouched)
       /\ (call.op = "relinkNodes" /\ ~linked) => (call.err = "NotLinked" /\ untouched)
       /\ (call.op = "unlinkNodes" /\ ~linked) =>
              (~call.found /\ call.err = "none" /\ untouched)

\* C20: linkNodes(from, to, t) fails with AlreadyLinked when an edge from -> to
\* exists, relinkNodes(from, to, t) fails with NotLinked when none exists, and
\* in both failing cases, as when unlinkNodes is called on a missing edge
\* (which returns none), the in and out maps of every state are unchanged.
C20_FailingCalls == [][C20_Step]_vars
\* a relinkNodes that failed between two nodes linked the other way round
C20_Witness ==
    /\ nlCall.op = "relinkNodes" /\ nlCall.err = "NotLinked"
    /\ nlCall.from # nlCall.to
    /\ mapHas(nlist.out[nlCall.to], nlCall.from)
    /\ ~mapHas(nlist.out[nlCall.from], nlCall.to)

\* ----------------------------------------------- claims on the graph builder
\* the nodes that reach the nodes of R along the edges of g (forward = FALSE),
\* or that the nodes of R reach (forward = TRUE)
RECURSIVE Connected(_, _, _)
Connected(R, g, forward) ==
    LET next == UNION {Range(mapKeys(IF forward THEN g.out[n] ELSE g.in[n])) : n \in R}
    IN IF next \subseteq R THEN R ELSE Connected(R \cup next, g, forward)

HasEdge(g, n) == g.in[n] # <<>> \/ g.out[n] # <<>>

\* C19: when the builder returns a graph, initial has no incoming edge,
\* tempFinal has no outgoing edge and is the only final, every state with an
\* incident edge lies on a path from initial to tempFinal, and every state
\* that cannot reach tempFinal has no incident edge.
C19_BuilderPostcondition ==
    phase = "built" =>
        LET g == engine.g
            fromInitial == Connected({initialNode}, g, TRUE)
            toFinal == Connected({tempFinal}, g, FALSE)
        IN /\ g.in[initialNode] = <<>>
           /\ g.out[tempFinal] = <<>>
           /\ g.finals = <<tempFinal>>
           /\ \A n \in Nodes : HasEdge(g, n) => (n \in fromInitial /\ n \in toFinal)
           /\ \A n \in Nodes : n \notin toFinal => ~HasEdge(g, n)
\* a graph from which a dead state was cut off: a state of the FA that has an
\* edge to itself and one from a state that reaches a final state
C19_Witness ==
    /\ phase = "built"
    /\ \E s \in States : \E r \in States :
          /\ r # s
          /\ \E i \in 1..Len(nfa.out[r]) : nfa.out[r][i].to = s
          /\ \E i \in 1..Len(nfa.out[s]) : nfa.out[s][i].to = s
          /\ ~HasEdge(engine.g, s)
          /\ HasEdge(engine.g, r)

\* C21: trivial concat absorption fires on a state B only when B has exactly
\* one in-edge, exactly one out-edge and no self-loop: whenever
\* removeTrivialConcat folds B (B leaves the remaining states in its call), the
\* in-neighbour and the out-neighbour of B are both different from B.
C21_Step ==
    (phase = "concat" /\ Head(pending) \notin Range(engine'.remaining)) =>
        LET B == Head(pending)
        IN /\ Len(engine.g.in[B]) = 1
           /\ Len(engine.g.out[B]) = 1
           /\ ~mapHas(engine.g.out[B], B)
           /\ ~mapHas(engine.g.in[B], B)
           /\ engine.g.in[B][1].k # B
           /\ engine.g.out[B][1].k # B
C21_ConcatWithoutSelfLoop == [][C21_Step]_vars
\* a fold has just happened: its two neighbours wait in newToProcess
C21_Witness ==
    /\ phase = "trivial"
    /\ Len(toProcessNext) = 2
    /\ \A n \in Range(toProcessNext) : Len(engine.g.in[n]) + Len(engine.g.out[n]) > 0

\* C22: removeState(s) leaves s with no incident edges and removes s from the
\* remaining states; afterwards an edge i->o exists for every former
\* in-neighbour i # s and out-neighbour o # s of s; every edge u->v with
\* u # s, v # s and (u, v) not in in(s) x out(s) keeps its transition
\* unchanged; and the returned affected set is exactly the former neighbours
\* of s other than s.
InNeighbours(g, s) == Range(mapKeys(g.in[s])) \ {s}
OutNeighbours(g, s) == Range(mapKeys(g.out[s])) \ {s}
C22_Effect(s) ==
    /\ engine'.g.in[s] = <<>> /\ engine'.g.out[s] = <<>>
    /\ \A n \in Nodes : ~mapHas(engine'.g.in[n], s) /\ ~mapHas(engine'.g.out[n], s)
    /\ s \in Range(engine.remaining)
    /\ engine'.remaining = setDelete(engine.remaining, s)
    /\ \A i \in InNeighbours(engine.g, s) : \A o \in OutNeighbours(engine.g, s) :
           mapHas(engine'.g.out[i], o) /\ mapHas(engine'.g.in[o], i)
    /\ \A u \in Nodes \ {s} : \A v \in Nodes \ {s} :
           (/\ mapHas(engine.g.out[u], v)
            /\ ~(u \in InNeighbours(engine.g, s) /\ v \in OutNeighbours(engine.g, s)))
           => /\ mapHas(engine'.g.out[u], v)
              /\ mapGet(engine'.g.out[u], v) = mapGet(engine.g.out[u], v)
              /\ mapGet(engine'.g.in[v], u) = mapGet(engine.g.in[v], u)
    /\ Range(pending') = InNeighbours(engine.g, s) \cup OutNeighbours(engine.g, s)
    /\ Len(pending') = Cardinality(Range(pending'))
C22_Step ==
    (phase = "pick" /\ phase' = "trivial") => C22_Effect(minOf(engine.g, engine.remaining))
C22_RemoveStateEffect == [][C22_Step]_vars

\* removeState has just returned: one state is gone and more than the two
\* states a fold affects are to be processed; the state removed is isolated
\* and a bypass through it has left a self-loop on a remaining state
C22_Witness ==
    /\ phase = "trivial"
    /\ toProcessNext = <<>>
    /\ Len(engine.remaining) = NumStates - 1
    /\ Len(pending) > 2
    /\ Range(engine.remaining) \subseteq Range(pending)
    /\ \E s \in States \ Range(engine.remaining) :
           /\ engine.g.in[s] = <<>> /\ engine.g.out[s] = <<>>
           /\ s \notin Range(pending)
    /\ \E t \in Range(engine.remaining) : mapHas(engine.g.out[t], t)

\* C23: at every iteration of the main elimination loop the removed state is
\* one of minimal cost over the remaining states R, where cost(s) =
\* (|in(s)| - 1) * (|out(s)| - 1) * 3 if s has a self-loop and
\* |in(s)| * |out(s)| * 2 otherwise (in and out counting the self-loop), and
\* among states of equal minimal cost the first in the iteration order of R is
\* the one removed.
StatedCost(g, s) ==
    IF \E e \in Range(g.out[s]) : e.k = s
    THEN (Len(g.in[s]) - 1) * (Len(g.out[s]) - 1) * 3
    ELSE Len(g.in[s]) * Len(g.out[s]) * 2
FirstOfMinimalCost(g, R, i) ==
    /\ \A j \in 1..Len(R) : StatedCost(g, R[i]) <= StatedCost(g, R[j])
    /\ \A j \in 1..(i - 1) : StatedCost(g, R[j]) > StatedCost(g, R[i])
C23_Step ==
    (phase = "pick" /\ phase' = "trivial") =>
        \E i \in 1..Len(engine.remaining) :
            /\ FirstOfMinimalCost(engine.g, engine.remaining, i)
            /\ engine'.remaining = setDelete(engine.remaining, engine.remaining[i])
            /\ engine'.g.in[engine.remaining[i]] = <<>>
            /\ engine'.g.out[engine.remaining[i]] = <<>>
C23_MinimalCostPicked == [][C23_Step]_vars
\* an iteration is entered where the pick is decided by all of the rule: the
\* state to remove has a self-loop, is not the first of R, and shares its cost
\* with a later state
C23_Witness ==
    /\ phase = "pick"
    /\ \E i \in 2..Len(engine.remaining) :
           /\ FirstOfMinimalCost(engine.g, engine.remaining, i)
           /\ mapHas(engine.g.out[engine.remaining[i]], engine.remaining[i])
           /\ \E j \in (i + 1)..Len(engine.remaining) :
                  StatedCost(engine.g, engine.remaining[j])
                      = StatedCost(engine.g, engine.remaining[i])

\* C24: at every point of state elimination no AST node object is reachable
\* from the labels of two different edges or twice from one label, so a step
\* of the elimination changes only the labels of the edges it relinks (those
\* at the state it works on and those between the neighbours of that state),
\* and the Expression stateElimination returns is a tree without shared nodes.
RECURSIVE IdsOf(_), IdsOfAll(_, _)
IdsOfAll(kids, k) ==
    IF k > Len(kids) THEN <<>> ELSE IdsOf(kids[k]) \o IdsOfAll(kids, k + 1)
IdsOf(n) == <<n.id>> \o IdsOfAll(n.kids, 1)
RECURSIVE LabelIds(_, _, _)
LabelIds(g, u, k) ==
    IF u > NumStates + 1 THEN <<>>
    ELSE IF k > Len(g.out[u]) THEN LabelIds(g, u + 1, 1)
    ELSE IdsOf(g.out[u][k].v) \o LabelIds(g, u, k + 1)
Distinct(q) == Cardinality(Range(q)) = Len(q)
Eliminating == phase \in {"built", "trivial", "concat", "pick", "finish"}
C24_State ==
    Eliminating =>
        /\ Distinct(LabelIds(engine.g, 0, 1))
        /\ \A u \in Nodes : \A k \in 1..Len(engine.g.out[u]) :
               mapGet(engine.g.in[engine.g.out[u][k].k], u) = engine.g.out[u][k].v
C24_Step ==
    /\ (phase \in {"trivial", "concat", "pick"} /\ engine'.g # engine.g) =>
           LET s == IF phase = "pick" THEN minOf(engine.g, engine.remaining)
                    ELSE Head(pending)
           IN \A u \in Nodes \ {s} : \A v \in Nodes \ {s} :
                  (/\ mapHas(engine.g.out[u], v)
                   /\ ~(mapHas(engine.g.in[s], u) /\ mapHas(engine.g.out[s], v)))
                  => /\ mapHas(engine'.g.out[u], v)
                     /\ mapGet(engine'.g.out[u], v) = mapGet(engine.g.out[u], v)
    /\ (phase = "finish" /\ phase' = "optimize") => Distinct(IdsOf(expression'))
C24_NoSharedNodes == []C24_State /\ [][C24_Step]_vars
\* the labels of two edges are copies of one sub-AST of several nodes:
\* structurally equal, made of different objects
C24_Witness ==
    /\ phase \in {"trivial", "pick"}
    /\ Len(engine.remaining) < NumStates
    /\ \E u \in Nodes : \E v \in Nodes : \E w \in Nodes \ {v} :
           /\ mapHas(engine.g.out[u], v) /\ mapHas(engine.g.out[u], w)
           /\ structurallyEqual(mapGet(engine.g.out[u], v), mapGet(engine.g.out[u], w))
           /\ Len(IdsOf(mapGet(engine.g.out[u], v))) >= 3
           /\ Distinct(IdsOf(mapGet(engine.g.out[u], v)) \o IdsOf(mapGet(engine.g.out[u], w)))

====
